---- MODULE Spec2Model ----
(***************************************************************************)
(* The OG image pipeline.                                                  *)
(*                                                                         *)
(* The builder plugin (packages/builder/src/plugins/og-image-storage/      *)
(* index.ts): onInit, and afterPhotoProcess with its run-scoped dedup      *)
(* cache, modelled step by step at its suspension points (Spec).  Its pure *)
(* helpers are also evaluated on their own over bounded inputs: the remote *)
(* prefix and key (SpecKey), resolveThumbnailDataUrl (SpecThumbnail) and   *)
(* buildExifInfo (SpecExif).                                               *)
(*                                                                         *)
(* The template's layout (be/apps/core/src/modules/content/og/             *)
(* og.template.tsx): determineLayout (SpecLayout), fitWithinBox (SpecFit)  *)
(* and the template's use of the two on an item's dimensions              *)
(* (SpecTemplate).                                                         *)
(*                                                                         *)
(* The server: the font cache of OgService with its cleanup timer under    *)
(* concurrent render requests (SpecFonts), the OAuth callback gateway      *)
(* (SpecGateway) and the photo upload limits (SpecLimits).                 *)
(*                                                                         *)
(* Strings are sequences of characters; a slash-free literal of the source *)
(* is written as one element.  An absent value (null / undefined) of an    *)
(* object is None == << >> and a present one is Some(x) == << x >>; an     *)
(* absent string or array is the empty sequence.                           *)
(***************************************************************************)
EXTENDS Integers, Sequences, FiniteSets, TLC

VARIABLES
    options,                 \* the options the plugin was constructed with
    config,                  \* the builder's storage configuration (config.user.storage)
    resolved,                \* ResolvedPluginConfig | null
    externalStorageManager,  \* StorageManager | null (TRUE when created)
    excludePrefixes,         \* prefixes registered on the builder's storage manager
    runShared,               \* per run: the value under RUN_STATE_KEY of its container
    pc,                      \* position of the afterPhotoProcess invocation in flight
    cur,                     \* payload and locals of the current / last invocation
    calls,                   \* I/O calls made by the current / last invocation, in order
    pre,                     \* item URL and run state when the invocation began
    outcome,                 \* how the last invocation ended
    fontLookups,             \* per run: number of loadFonts calls so far
    fontWarnings,            \* per run: number of 'fonts not found' warnings logged
    nCalls,                  \* number of afterPhotoProcess invocations so far
    args,                    \* arguments of the pure function under evaluation
    result                   \* its value, None until it has been evaluated

\* The state of the OgService of the server (src/unnamed/part_004).
VARIABLES
    geistFontPromise,                \* Promise<Buffer> | null
    harmonySansScMediumFontPromise,  \* Promise<Buffer> | null
    fontCleanupTimer,                \* the handle the service holds, or null
    timers,                          \* the timers that are armed: handle -> minutes left
    sinceActivity,                   \* minutes since the last loadFonts completed (capped)
    requests,                        \* position and locals of each render request
    nRequests,                       \* render requests started
    nEvictions,                      \* runs of the cleanup callback
    reads                            \* readFile calls per font since the last eviction

ogVars == << geistFontPromise, harmonySansScMediumFontPromise, fontCleanupTimer, timers,
             sinceActivity, requests, nRequests, nEvictions, reads >>

pluginVars == << options, config, resolved, externalStorageManager, excludePrefixes, runShared,
                 pc, cur, calls, pre, outcome, fontLookups, fontWarnings, nCalls >>

vars == << pluginVars, ogVars, args, result >>

\* ------------------------------------------------------------------ bounds

MaxCalls == 2

\* --------------------------------------------------------------- constants

NumFontCandidates == 3

None == << >>
Some(x) == << x >>

DEFAULT_DIRECTORY == << ".afilmory", "/", "og-images" >>
DEFAULT_CONTENT_TYPE == "image/png"
DEFAULT_SITE_NAME == "Photo Gallery"
DEFAULT_ACCENT_COLOR == "#007bff"

\* ----------------------------------------------------------------- strings

RECURSIVE StripLeadingSlashes(_)
StripLeadingSlashes(s) ==
    IF s # << >> /\ Head(s) = "/" THEN StripLeadingSlashes(Tail(s)) ELSE s

RECURSIVE StripTrailingSlashes(_)
StripTrailingSlashes(s) ==
    IF s # << >> /\ s[Len(s)] = "/"
    THEN StripTrailingSlashes(SubSeq(s, 1, Len(s) - 1))
    ELSE s

\* value.replaceAll('\\', '/').replaceAll(/^\/+|\/+$/g, '')
SlashNormalize(s) ==
    LET fwd == [i \in 1..Len(s) |-> IF s[i] = "\\" THEN "/" ELSE s[i]]
    IN  StripTrailingSlashes(StripLeadingSlashes(fwd))

RECURSIVE TrimLeft(_)
TrimLeft(s) == IF s # << >> /\ Head(s) = " " THEN TrimLeft(Tail(s)) ELSE s

RECURSIVE TrimRight(_)
TrimRight(s) ==
    IF s # << >> /\ s[Len(s)] = " " THEN TrimRight(SubSeq(s, 1, Len(s) - 1)) ELSE s

Trim(s) == TrimRight(TrimLeft(s))

\* normalizeDirectory without the fallback of line 65.
normalizeDirectoryNoFallback(directory) ==
    LET value == IF Trim(directory) = << >> THEN DEFAULT_DIRECTORY ELSE Trim(directory)
    IN  SlashNormalize(value)

normalizeDirectory(directory) ==
    LET value == IF Trim(directory) = << >> THEN DEFAULT_DIRECTORY ELSE Trim(directory)
        normalized == SlashNormalize(value)
    IN  IF normalized = << >> THEN DEFAULT_DIRECTORY ELSE normalized

trimSlashes(value) == SlashNormalize(value)

RECURSIVE JoinWithSlash(_)
JoinWithSlash(segs) ==
    IF segs = << >> THEN << >>
    ELSE IF Len(segs) = 1 THEN segs[1]
    ELSE segs[1] \o << "/" >> \o JoinWithSlash(Tail(segs))

joinSegments(segments) ==
    LET mapped == [i \in 1..Len(segments) |-> SlashNormalize(segments[i])]
        filtered == SelectSeq(mapped, LAMBDA seg : Len(seg) > 0)
    IN  JoinWithSlash(filtered)

PrefixProviders == {"s3", "oss", "cos"}

resolveRemotePrefix(storageConfig, directory) ==
    IF storageConfig.provider \in PrefixProviders
    THEN joinSegments(<< trimSlashes(storageConfig.prefix), directory >>)
    ELSE joinSegments(<< directory >>)

RemoteKey(remotePrefix, id) == joinSegments(<< remotePrefix, id \o << ".png" >> >>)

\* ------------------------------------------------------------ input domains

Runs == {"run1", "run2"}
Types == {"processed", "skipped"}
StaleUrl == << "stale" >>
UrlVariants == {"v1", "v2"}

\* A storage configuration: provider and, for the S3-compatible ones, a prefix.
S3Storage == [provider |-> "s3", prefix |-> << "/", "p", "/" >>]
GithubStorage == [provider |-> "github", prefix |-> << >>]
EagleStorage == [provider |-> "eagle", prefix |-> << >>]

\* The storage configurations the builder can run with.
StorageConfigs == { S3Storage, EagleStorage }

\* options.storageConfig is None when the option is not given.
DefaultOptions ==
    [enable |-> "undefined", directory |-> << >>, storageConfig |-> None,
     contentType |-> << >>, siteName |-> << >>, accentColor |-> << >>]

OptionSets ==
    { DefaultOptions,
      [DefaultOptions EXCEPT !.enable = "true", !.directory = << "/", "og", "/" >>,
                             !.storageConfig = Some(GithubStorage)],
      [DefaultOptions EXCEPT !.enable = "false", !.storageConfig = Some(GithubStorage)] }

\* What the site config read yields: None (unreadable or malformed) or the parsed file.
SiteFiles ==
    { None, Some([name |-> << >>, title |-> << "T" >>, accentColor |-> << >>]) }

\* A font candidate path: stat fails or is no file / a readable file / a file whose
\* read fails.
FileStatus == {"absent", "file", "unreadable"}

\* The URLs generatePublicUrl can return for a key (never the empty string).
PublicUrls(key) == { << v >> \o key : v \in UrlVariants }

\* ------------------------------------------------------------------ helpers

EmptyRunState ==
    [uploaded |-> {}, urlCache |-> << >>, fonts |-> << >>, siteMeta |-> None]

\* getOrCreateRunState handing out a new RunState for every item.
getOrCreateRunStateFresh(container) == Some(EmptyRunState)

getOrCreateRunState(container) ==
    IF container = None THEN Some(EmptyRunState) ELSE container

RECURSIVE loadFontFile(_)
\* "null", "data" or "throw" for a list of candidate statuses, tried in order.
loadFontFile(candidates) ==
    IF candidates = << >> THEN "null"
    ELSE IF Head(candidates) = "file" THEN "data"
    ELSE IF Head(candidates) = "unreadable" THEN "throw"
    ELSE loadFontFile(Tail(candidates))

\* loadFonts with the check of line 135 reduced to !geist.
loadFontsGeistOnly(geistFiles, harmonyFiles) ==
    LET geist == loadFontFile(geistFiles)
        harmony == loadFontFile(harmonyFiles)
    IN  IF geist = "throw" \/ harmony = "throw"
        THEN [threw |-> TRUE, fonts |-> << >>, warned |-> FALSE]
        ELSE IF geist = "null"
        THEN [threw |-> FALSE, fonts |-> << >>, warned |-> TRUE]
        ELSE [threw |-> FALSE, fonts |-> << "Geist", "HarmonyOS Sans SC" >>,
              warned |-> FALSE]

\* [threw, fonts, warned]: fonts is << >> for null.
loadFonts(geistFiles, harmonyFiles) ==
    LET geist == loadFontFile(geistFiles)
        harmony == loadFontFile(harmonyFiles)
    IN  IF geist = "throw" \/ harmony = "throw"
        THEN [threw |-> TRUE, fonts |-> << >>, warned |-> FALSE]
        ELSE IF geist = "null" \/ harmony = "null"
        THEN [threw |-> FALSE, fonts |-> << >>, warned |-> TRUE]
        ELSE [threw |-> FALSE, fonts |-> << "Geist", "HarmonyOS Sans SC" >>,
              warned |-> FALSE]

Or(a, b) == IF a # << >> THEN a ELSE b

loadSiteMeta(opts, file) ==
    LET fallback == [siteName |-> Or(Trim(opts.siteName), << DEFAULT_SITE_NAME >>),
                     accentColor |-> Or(Trim(opts.accentColor), << DEFAULT_ACCENT_COLOR >>)]
    IN  IF file = None THEN fallback
        ELSE [siteName |-> Or(Trim(file[1].name), Or(Trim(file[1].title), fallback.siteName)),
              accentColor |-> Or(Trim(file[1].accentColor), fallback.accentColor)]

\* shouldRender without the isForceManifest disjunct.
shouldRenderNoManifest(type, isForceMode, isForceManifest) ==
    type # "skipped" \/ isForceMode

shouldRender(type, isForceMode, isForceManifest) ==
    type # "skipped" \/ isForceMode \/ isForceManifest

\* The upload condition without the force flags.
needsUploadDedupOnly(uploaded, remoteKey, isForceMode, isForceManifest) ==
    remoteKey \notin uploaded

\* Lines 420-424.
needsUpload(uploaded, remoteKey, isForceMode, isForceManifest) ==
    remoteKey \notin uploaded \/ isForceMode \/ isForceManifest

MapGet(m, k) == IF k \in DOMAIN m THEN m[k] ELSE << >>
MapSet(m, k, v) == [x \in DOMAIN m \cup {k} |-> IF x = k THEN v ELSE m[x]]

Call(op, arg, ok) == [op |-> op, arg |-> arg, ok |-> ok]

State(run) == runShared[run][1]

\* The payload of an invocation and its locals; ogImageUrl is item.ogImageUrl.
NoPayload ==
    [run |-> "run1", item |-> None, type |-> "processed",
     isForceMode |-> FALSE, isForceManifest |-> FALSE,
     remoteKey |-> << >>, thumbnailSrc |-> << >>, ogImageUrl |-> << >>]

\* payload.result.item: null (a failed photo) or a manifest item, which may carry
\* an ogImageUrl from an earlier build.
Items ==
    { None, Some([id |-> << "a" >>, ogImageUrl |-> << >>]),
      Some([id |-> << "b" >>, ogImageUrl |-> StaleUrl]) }

\* resolveConfig without the check for the eagle provider (line 322).
resolveConfigEagleEnabled(opts, fallbackStorage) ==
    LET enable == opts.enable # "false"
        directory == normalizeDirectory(opts.directory)
        contentType == Or(opts.contentType, << DEFAULT_CONTENT_TYPE >>)
        storageConfig == IF opts.storageConfig # None THEN opts.storageConfig[1]
                         ELSE fallbackStorage
    IN  IF ~enable
        THEN [directory |-> directory, remotePrefix |-> << >>, contentType |-> contentType,
              useDefaultStorage |-> TRUE, storageConfig |-> None, enabled |-> FALSE]
        ELSE [directory |-> directory,
              remotePrefix |-> resolveRemotePrefix(storageConfig, directory),
              contentType |-> contentType,
              useDefaultStorage |-> (opts.storageConfig = None),
              storageConfig |-> Some(storageConfig), enabled |-> TRUE]

\* The ResolvedPluginConfig onInit computes (lines 303-345).
resolveConfig(opts, fallbackStorage) ==
    LET enable == opts.enable # "false"
        directory == normalizeDirectory(opts.directory)
        contentType == Or(opts.contentType, << DEFAULT_CONTENT_TYPE >>)
        storageConfig == IF opts.storageConfig # None THEN opts.storageConfig[1]
                         ELSE fallbackStorage
    IN  IF ~enable
        THEN [directory |-> directory, remotePrefix |-> << >>, contentType |-> contentType,
              useDefaultStorage |-> TRUE, storageConfig |-> None, enabled |-> FALSE]
        ELSE IF storageConfig.provider = "eagle"
        THEN [directory |-> directory, remotePrefix |-> << >>, contentType |-> contentType,
              useDefaultStorage |-> (opts.storageConfig = None), storageConfig |-> None,
              enabled |-> FALSE]
        ELSE [directory |-> directory,
              remotePrefix |-> resolveRemotePrefix(storageConfig, directory),
              contentType |-> contentType,
              useDefaultStorage |-> (opts.storageConfig = None),
              storageConfig |-> Some(storageConfig), enabled |-> TRUE]

\* !resolved || !resolved.enabled
pluginDisabled(r) == r = None \/ ~r[1].enabled

\* resolved.useDefaultStorage ? builder.getStorageManager() : externalStorageManager
hasStorageManager(r, external) == r[1].useDefaultStorage \/ external

\* Thumbnail URLs carried by the plugin data or the item; << >> when absent.
RemoteThumbnail == << "https://", "cdn", "/", "t", ".webp" >>
LocalThumbnail == << "/", "thumbs", "/", "t", ".png" >>

\* The thumbnail data of a processed photo and what the reads of it yield: an
\* in-memory buffer; no URL at all; a remote URL whose fetch throws and whose
\* local read fails; a remote URL whose fetch is answered with an error status
\* and whose local read succeeds; a remote URL that is fetched; a local path
\* that is read.
ThumbnailInputs ==
    { [buffer |-> TRUE, localUrl |-> LocalThumbnail, itemUrl |-> RemoteThumbnail,
       fetched |-> "ok", header |-> << >>, readOk |-> TRUE],
      [buffer |-> FALSE, localUrl |-> << >>, itemUrl |-> << >>,
       fetched |-> "ok", header |-> << >>, readOk |-> TRUE],
      [buffer |-> FALSE, localUrl |-> << >>, itemUrl |-> RemoteThumbnail,
       fetched |-> "throw", header |-> << >>, readOk |-> FALSE],
      [buffer |-> FALSE, localUrl |-> << >>, itemUrl |-> RemoteThumbnail,
       fetched |-> "notok", header |-> << >>, readOk |-> TRUE],
      [buffer |-> FALSE, localUrl |-> << >>, itemUrl |-> RemoteThumbnail,
       fetched |-> "ok", header |-> << >>, readOk |-> TRUE],
      [buffer |-> FALSE, localUrl |-> LocalThumbnail, itemUrl |-> << >>,
       fetched |-> "ok", header |-> << >>, readOk |-> TRUE] }

IsHttpUrl(url) == url # << >> /\ Head(url) \in {"http://", "https://"}

guessContentType(thumbnailUrl) ==
    IF thumbnailUrl[Len(thumbnailUrl)] = ".png" THEN "image/png"
    ELSE IF thumbnailUrl[Len(thumbnailUrl)] = ".webp" THEN "image/webp"
    ELSE "image/jpeg"

\* resolveThumbnailDataUrl returning null when the fetch has failed, without the
\* local read.
resolveThumbnailDataUrlNoFallThrough(buffer, localUrl, itemUrl, fetched, header, readOk) ==
    LET thumbnailUrl == Or(localUrl, itemUrl)
        contentType == guessContentType(thumbnailUrl)
        fetchCall == Call("fetch", thumbnailUrl, fetched = "ok")
        readCall == Call("readFile", StripLeadingSlashes(thumbnailUrl), readOk)
        local == IF readOk THEN << contentType, "local" >> ELSE << >>
    IN  IF buffer THEN [src |-> << "image/jpeg", "buffer" >>, io |-> << >>]
        ELSE IF thumbnailUrl = << >> THEN [src |-> << >>, io |-> << >>]
        ELSE IF IsHttpUrl(thumbnailUrl)
        THEN IF fetched = "ok"
             THEN [src |-> << IF header # << >> THEN header[1] ELSE contentType, "remote" >>,
                   io |-> << fetchCall >>]
             ELSE [src |-> << >>, io |-> << fetchCall >>]
        ELSE [src |-> local, io |-> << readCall >>]

\* resolveThumbnailDataUrl with the in-memory bytes tried after the URLs.
resolveThumbnailDataUrlBufferLast(buffer, localUrl, itemUrl, fetched, header, readOk) ==
    LET thumbnailUrl == Or(localUrl, itemUrl)
        contentType == guessContentType(thumbnailUrl)
        fetchCall == Call("fetch", thumbnailUrl, fetched = "ok")
        readCall == Call("readFile", StripLeadingSlashes(thumbnailUrl), readOk)
        bytes == IF buffer THEN << "image/jpeg", "buffer" >> ELSE << >>
        local == IF readOk THEN << contentType, "local" >> ELSE bytes
    IN  IF thumbnailUrl = << >> THEN [src |-> bytes, io |-> << >>]
        ELSE IF IsHttpUrl(thumbnailUrl)
        THEN IF fetched = "ok"
             THEN [src |-> << IF header # << >> THEN header[1] ELSE contentType, "remote" >>,
                   io |-> << fetchCall >>]
             ELSE [src |-> local, io |-> << fetchCall, readCall >>]
        ELSE [src |-> local, io |-> << readCall >>]

\* resolveThumbnailDataUrl (lines 196-233): [src, io].  src is << >> for null, else
\* << content type, source of the bytes >>; io lists the reads it made.
\* buffer: pluginData?.buffer is set; fetched: "ok", "notok" or "throw";
\* header: the response's content-type, << >> when it has none;
\* readOk: the local read succeeds.
resolveThumbnailDataUrl(buffer, localUrl, itemUrl, fetched, header, readOk) ==
    LET thumbnailUrl == Or(localUrl, itemUrl)
        contentType == guessContentType(thumbnailUrl)
        fetchCall == Call("fetch", thumbnailUrl, fetched = "ok")
        readCall == Call("readFile", StripLeadingSlashes(thumbnailUrl), readOk)
        local == IF readOk THEN << contentType, "local" >> ELSE << >>
    IN  IF buffer THEN [src |-> << "image/jpeg", "buffer" >>, io |-> << >>]
        ELSE IF thumbnailUrl = << >> THEN [src |-> << >>, io |-> << >>]
        ELSE IF IsHttpUrl(thumbnailUrl)
        THEN IF fetched = "ok"
             THEN [src |-> << IF header # << >> THEN header[1] ELSE contentType, "remote" >>,
                   io |-> << fetchCall >>]
             ELSE [src |-> local, io |-> << fetchCall, readCall >>]
        ELSE [src |-> local, io |-> << readCall >>]

\* --------------------------------------------------------------------- Init

\* The plugin right after construction, before any hook has run.
\* The render requests the OgService serves at a time, and a request that has
\* not begun.
Requests == {"req1", "req2"}
IdleRequest == [pc |-> "idle", candidate |-> 0, geist |-> None, harmony |-> None]

Constructed ==
    /\ resolved = None
    /\ externalStorageManager = FALSE
    /\ excludePrefixes = {}
    /\ runShared = [r \in Runs |-> None]
    /\ pc = "idle"
    /\ cur = NoPayload
    /\ calls = << >>
    /\ pre = [ogImageUrl |-> << >>, runShared |-> None]
    /\ outcome = "none"
    /\ fontLookups = [r \in Runs |-> 0]
    /\ fontWarnings = [r \in Runs |-> 0]
    /\ nCalls = 0
    /\ geistFontPromise = None
    /\ harmonySansScMediumFontPromise = None
    /\ fontCleanupTimer = None
    /\ timers = {}
    /\ sinceActivity = 0
    /\ requests = [r \in Requests |-> IdleRequest]
    /\ nRequests = 0
    /\ nEvictions = 0
    /\ reads = [geist |-> 0, harmony |-> 0]

\* The builder's configuration is not read when the options carry a storage
\* configuration (line 320), so these options are run against one of them.
Init ==
    /\ options \in OptionSets
    /\ config \in StorageConfigs
    /\ options.storageConfig # None => config = EagleStorage
    /\ Constructed
    /\ args = None
    /\ result = None

\* ------------------------------------------------------------------ actions

\* The builder calls the onInit hook once, with its ambient storage configuration
\* (lines 302-352).
onInit ==
    /\ pc = "idle"
    /\ resolved = None
    /\ LET r == resolveConfig(options, config)
       IN  /\ resolved' = Some(r)
           /\ excludePrefixes' =
                  IF r.enabled /\ options.storageConfig = None
                  THEN excludePrefixes \cup {r.remotePrefix}
                  ELSE excludePrefixes
           /\ externalStorageManager' = (r.enabled /\ options.storageConfig # None)
    /\ UNCHANGED << ogVars, args, result, options, config, runShared, pc, cur, calls, pre, outcome,
                    fontLookups, fontWarnings, nCalls >>

\* The runs are numbered in the order of their first photo.
StartedRuns == { r \in Runs : runShared[r] # None }
NextRun == IF runShared["run1"] = None THEN "run1" ELSE "run2"

Return(how) == pc' = "idle" /\ outcome' = how

\* Lines 354-369: the guards before the first suspension point.
afterPhotoProcess ==
    /\ pc = "idle"
    /\ nCalls < MaxCalls
    /\ \E run \in StartedRuns \cup {NextRun}, item \in Items, type \in Types,
          isForceMode \in BOOLEAN, isForceManifest \in BOOLEAN :
         /\ cur' = [NoPayload EXCEPT !.run = run, !.item = item, !.type = type,
                                     !.isForceMode = isForceMode,
                                     !.isForceManifest = isForceManifest,
                                     !.ogImageUrl = IF item = None THEN << >>
                                                    ELSE item[1].ogImageUrl]
         /\ pre' = [ogImageUrl |-> IF item = None THEN << >> ELSE item[1].ogImageUrl,
                    runShared |-> runShared[run]]
         /\ IF \/ pluginDisabled(resolved)
               \/ item = None
               \/ ~hasStorageManager(resolved, externalStorageManager)
            THEN /\ Return("returned")
                 /\ UNCHANGED runShared
            ELSE /\ runShared' = [runShared EXCEPT ![run] = getOrCreateRunState(@)]
                 /\ pc' = "siteMeta"
                 /\ outcome' = "pending"
    /\ calls' = << >>
    /\ nCalls' = nCalls + 1
    /\ UNCHANGED << ogVars, args, result, options, config, resolved, externalStorageManager,
                    excludePrefixes,
                    fontLookups, fontWarnings >>

\* Lines 371-373.
LoadSiteMetaStep ==
    /\ pc = "siteMeta"
    /\ IF State(cur.run).siteMeta = None
       THEN \E file \in SiteFiles :
              /\ runShared' = [runShared EXCEPT
                                 ![cur.run][1].siteMeta = Some(loadSiteMeta(options, file))]
              /\ calls' = Append(calls, Call("readSiteConfig", << >>, file # None))
       ELSE UNCHANGED << runShared, calls >>
    /\ pc' = "fonts"
    /\ UNCHANGED << ogVars, args, result, options, config, resolved, externalStorageManager,
                    excludePrefixes, cur, pre,
                    outcome, fontLookups, fontWarnings, nCalls >>

\* Lines 379-386, with the fonts now in state.fonts.
AfterFonts(fonts) ==
    IF fonts = << >>
    THEN Return("returned") /\ UNCHANGED cur
    ELSE /\ cur' = [cur EXCEPT !.remoteKey =
                        RemoteKey(resolved[1].remotePrefix, cur.item[1].id)]
         /\ pc' = IF shouldRender(cur.type, cur.isForceMode, cur.isForceManifest)
                  THEN "thumbnail" ELSE "resolveOnly"
         /\ UNCHANGED outcome

\* What stat and readFile find at the candidate paths of one font, in order.
FontCandidates ==
    { c \in [1..NumFontCandidates -> FileStatus] :
        c \in { << "absent", "absent", "absent" >>, << "file", "absent", "absent" >>,
                << "absent", "absent", "file" >>, << "absent", "unreadable", "file" >> } }

\* What the lookup of the two fonts comes to, for the record of the call.
FontFiles(geistFiles, harmonyFiles) ==
    IF "throw" \in {loadFontFile(geistFiles), loadFontFile(harmonyFiles)} THEN "unreadable"
    ELSE IF "null" \in {loadFontFile(geistFiles), loadFontFile(harmonyFiles)} THEN "missing"
    ELSE "found"

\* Lines 375-386.
LoadFontsStep ==
    /\ pc = "fonts"
    /\ IF State(cur.run).fonts = << >>
       THEN \E geistFiles \in FontCandidates, harmonyFiles \in FontCandidates :
              LET r == loadFonts(geistFiles, harmonyFiles)
              IN  /\ fontLookups' = [fontLookups EXCEPT ![cur.run] = @ + 1]
                  /\ fontWarnings' = [fontWarnings EXCEPT
                                        ![cur.run] = @ + (IF r.warned THEN 1 ELSE 0)]
                  /\ calls' = Append(calls,
                                Call("loadFonts", << FontFiles(geistFiles, harmonyFiles) >>,
                                     ~r.threw))
                  /\ IF r.threw
                     THEN Return("threw") /\ UNCHANGED << runShared, cur >>
                     ELSE /\ runShared' = [runShared EXCEPT ![cur.run][1].fonts = r.fonts]
                          /\ AfterFonts(r.fonts)
       ELSE /\ AfterFonts(State(cur.run).fonts)
            /\ UNCHANGED << runShared, calls, fontLookups, fontWarnings >>
    /\ UNCHANGED << ogVars, args, result, options, config, resolved, externalStorageManager,
                    excludePrefixes, pre, nCalls >>

\* resolvedUrlEffect that keeps only the URL resolved last.
resolvedUrlEffectLastOnly(urlCache, ogImageUrl, remoteKey, ok, remoteUrl) ==
    IF ok
    THEN [urlCache |-> MapSet(<< >>, remoteKey, remoteUrl), ogImageUrl |-> remoteUrl]
    ELSE [urlCache |-> urlCache, ogImageUrl |-> ogImageUrl]

\* resolvedUrlEffect that writes the item but leaves the cache alone.
resolvedUrlEffectNoCache(urlCache, ogImageUrl, remoteKey, ok, remoteUrl) ==
    IF ok
    THEN [urlCache |-> urlCache, ogImageUrl |-> remoteUrl]
    ELSE [urlCache |-> urlCache, ogImageUrl |-> ogImageUrl]

\* resolvedUrlEffect that writes the item also when the resolution failed.
resolvedUrlEffectOnFailure(urlCache, ogImageUrl, remoteKey, ok, remoteUrl) ==
    IF ok
    THEN [urlCache |-> MapSet(urlCache, remoteKey, remoteUrl), ogImageUrl |-> remoteUrl]
    ELSE [urlCache |-> urlCache, ogImageUrl |-> remoteUrl]

\* What a generatePublicUrl outcome does to the cache and the item (lines 390-392
\* and 439-447): [urlCache, ogImageUrl].
resolvedUrlEffect(urlCache, ogImageUrl, remoteKey, ok, remoteUrl) ==
    IF ok
    THEN [urlCache |-> MapSet(urlCache, remoteKey, remoteUrl), ogImageUrl |-> remoteUrl]
    ELSE [urlCache |-> urlCache, ogImageUrl |-> ogImageUrl]

GeneratePublicUrl ==
    \E ok \in BOOLEAN, remoteUrl \in PublicUrls(cur.remoteKey) :
       LET e == resolvedUrlEffect(State(cur.run).urlCache, cur.ogImageUrl,
                                  cur.remoteKey, ok, remoteUrl)
       IN  /\ calls' = Append(calls, Call("generatePublicUrl", cur.remoteKey, ok))
           /\ runShared' = [runShared EXCEPT ![cur.run][1].urlCache = e.urlCache]
           /\ cur' = [cur EXCEPT !.ogImageUrl = e.ogImageUrl]

\* Lines 388-397: the item was skipped upstream and nothing forces a render.
ResolveOnlyStep ==
    /\ pc = "resolveOnly"
    /\ GeneratePublicUrl
    /\ Return("returned")
    /\ UNCHANGED << ogVars, args, result, options, config, resolved, externalStorageManager,
                    excludePrefixes, pre,
                    fontLookups, fontWarnings, nCalls >>

\* Lines 399-402: the thumbnail source of the card.
ResolveThumbnailStep ==
    /\ pc = "thumbnail"
    /\ \E in \in ThumbnailInputs :
         LET r == resolveThumbnailDataUrl(in.buffer, in.localUrl, in.itemUrl,
                                          in.fetched, in.header, in.readOk)
         IN  /\ cur' = [cur EXCEPT !.thumbnailSrc = r.src]
             /\ calls' = calls \o r.io
    /\ pc' = "render"
    /\ UNCHANGED << ogVars, args, result, options, config, resolved, externalStorageManager,
                    excludePrefixes, runShared,
                    pre, outcome, fontLookups, fontWarnings, nCalls >>

\* Lines 404-424: renderOgImage, then the decision to upload.
RenderStep ==
    /\ pc = "render"
    /\ \E ok \in BOOLEAN :
         /\ calls' = Append(calls, Call("renderOgImage", cur.item[1].id, ok))
         /\ IF ~ok
            THEN Return("returned")
            ELSE /\ pc' = IF needsUpload(State(cur.run).uploaded, cur.remoteKey,
                                         cur.isForceMode, cur.isForceManifest)
                          THEN "upload" ELSE "url"
                 /\ UNCHANGED outcome
    /\ UNCHANGED << ogVars, args, result, options, config, resolved, externalStorageManager,
                    excludePrefixes, runShared,
                    cur, pre, fontLookups, fontWarnings, nCalls >>

\* UploadStep recording the key as uploaded whether the upload succeeded or not.
UploadStepMarksFailure ==
    /\ pc = "upload"
    /\ \E ok \in BOOLEAN :
         /\ calls' = Append(calls, Call("uploadFile", cur.remoteKey, ok))
         /\ runShared' = [runShared EXCEPT
                            ![cur.run][1].uploaded = @ \cup {cur.remoteKey}]
         /\ IF ok
            THEN pc' = "url" /\ UNCHANGED outcome
            ELSE Return("returned")
    /\ UNCHANGED << ogVars, args, result, options, config, resolved, externalStorageManager,
                    excludePrefixes, cur, pre, fontLookups, fontWarnings, nCalls >>

\* UploadStep with a failed upload tried again.
UploadStepRetry ==
    /\ pc = "upload"
    /\ \E ok \in BOOLEAN :
         /\ calls' = Append(calls, Call("uploadFile", cur.remoteKey, ok))
         /\ IF ok
            THEN /\ runShared' = [runShared EXCEPT
                                    ![cur.run][1].uploaded = @ \cup {cur.remoteKey}]
                 /\ pc' = "url"
            ELSE /\ pc' = "upload"
                 /\ UNCHANGED runShared
    /\ UNCHANGED << ogVars, args, result, options, config, resolved, externalStorageManager,
                    excludePrefixes, cur, pre, outcome, fontLookups, fontWarnings, nCalls >>

\* Lines 425-433.
UploadStep ==
    /\ pc = "upload"
    /\ \E ok \in BOOLEAN :
         /\ calls' = Append(calls, Call("uploadFile", cur.remoteKey, ok))
         /\ IF ok
            THEN /\ runShared' = [runShared EXCEPT
                                    ![cur.run][1].uploaded = @ \cup {cur.remoteKey}]
                 /\ pc' = "url"
                 /\ UNCHANGED outcome
            ELSE /\ Return("returned")
                 /\ UNCHANGED runShared
    /\ UNCHANGED << ogVars, args, result, options, config, resolved, externalStorageManager,
                    excludePrefixes, cur, pre,
                    fontLookups, fontWarnings, nCalls >>

\* A lookup that never finds the cached URL.
cachedUrlNever(urlCache, remoteKey) == << >>

\* stateForUpload.urlCache.get(remoteKey), << >> when it holds none.
cachedUrl(urlCache, remoteKey) == MapGet(urlCache, remoteKey)

\* Lines 436-447.
PublicUrlStep ==
    /\ pc = "url"
    /\ IF cachedUrl(State(cur.run).urlCache, cur.remoteKey) # << >>
       THEN /\ cur' = [cur EXCEPT !.ogImageUrl =
                           cachedUrl(State(cur.run).urlCache, cur.remoteKey)]
            /\ UNCHANGED << runShared, calls >>
       ELSE GeneratePublicUrl
    /\ Return("returned")
    /\ UNCHANGED << ogVars, args, result, options, config, resolved, externalStorageManager,
                    excludePrefixes, pre,
                    fontLookups, fontWarnings, nCalls >>

Next ==
    \/ onInit
    \/ afterPhotoProcess
    \/ LoadSiteMetaStep
    \/ LoadFontsStep
    \/ ResolveOnlyStep
    \/ ResolveThumbnailStep
    \/ RenderStep
    \/ UploadStep
    \/ PublicUrlStep

Spec == Init /\ [][Next]_vars

TypeOK ==
    /\ pc \in {"idle", "siteMeta", "fonts", "resolveOnly", "thumbnail", "render",
               "upload", "url"}
    /\ outcome \in {"none", "pending", "returned", "threw"}
    /\ nCalls \in 0..MaxCalls

\* ------------------------------------------------- vocabulary of the claims

\* The current / last invocation passed the guards of lines 354-367.
Active ==
    /\ outcome # "none"
    /\ cur.item # None
    /\ runShared[cur.run] # None
    /\ ~pluginDisabled(resolved)

Finished == pc = "idle" /\ outcome \in {"returned", "threw"}

Invoked(op) == \E i \in DOMAIN calls : calls[i].op = op
Succeeded(op) == \E i \in DOMAIN calls : calls[i].op = op /\ calls[i].ok
Failed(op) == \E i \in DOMAIN calls : calls[i].op = op /\ ~calls[i].ok
CallsOf(op) == SelectSeq(calls, LAMBDA c : c.op = op)

Forced == cur.isForceMode \/ cur.isForceManifest

\* The remote key of the item: '<remotePrefix>/<itemId>.png'.
ItemKey == resolved[1].remotePrefix \o << "/" >> \o cur.item[1].id \o << ".png" >>

\* The run-scoped cache as it was when the invocation began, and as it is.
UploadedBefore == IF pre.runShared = None THEN {} ELSE pre.runShared[1].uploaded
UrlCacheBefore == IF pre.runShared = None THEN << >> ELSE pre.runShared[1].urlCache
UploadedNow == State(cur.run).uploaded
UrlCacheNow == State(cur.run).urlCache
FontsAvailable == State(cur.run).fonts # << >>

\* The font lookup of this invocation found a font file missing.
FontsMissing == \E i \in DOMAIN calls :
                   calls[i].op = "loadFonts" /\ calls[i].arg = << "missing" >>

\* --------------------------------------------------------------------- C1

\* C1: a skipped item with no force flag, with the plugin enabled and the fonts
\* available, is never rendered or uploaded; generatePublicUrl is invoked once, for
\* the item's remote key, and when it succeeds the URL it returned is in urlCache
\* under that key and in item.ogImageUrl.
C1_SkipPathResolvesOnly ==
    (Active /\ FontsAvailable /\ cur.type = "skipped" /\ ~Forced) =>
        /\ ~Invoked("renderOgImage")
        /\ ~Invoked("uploadFile")
        /\ pc \notin {"thumbnail", "render", "upload", "url"}
        /\ Finished =>
             /\ Len(CallsOf("generatePublicUrl")) = 1
             /\ CallsOf("generatePublicUrl")[1].arg = ItemKey
             /\ Succeeded("generatePublicUrl") =>
                  /\ ItemKey \in DOMAIN UrlCacheNow
                  /\ UrlCacheNow[ItemKey] \in PublicUrls(ItemKey)
                  /\ cur.ogImageUrl = UrlCacheNow[ItemKey]

C1_Witness ==
    /\ Active /\ FontsAvailable /\ cur.type = "skipped" /\ ~Forced /\ Finished
    /\ Succeeded("generatePublicUrl")
    /\ pre.ogImageUrl = StaleUrl
    /\ cur.ogImageUrl # StaleUrl

\* --------------------------------------------------------------------- C2

\* The invocation is past the decision of lines 420-424.
PastUploadDecision == Active /\ Succeeded("renderOgImage")

\* C2: once the render succeeded, uploadFile is invoked exactly when the key was
\* not in uploadedKeys or a force flag is set, and a successful upload leaves the
\* key in uploadedKeys.
C2_UploadIffNewOrForced ==
    PastUploadDecision =>
        /\ (pc = "upload" \/ Invoked("uploadFile"))
              <=> (ItemKey \notin UploadedBefore \/ cur.isForceMode \/ cur.isForceManifest)
        /\ Len(CallsOf("uploadFile")) <= 1
        /\ Succeeded("uploadFile") => ItemKey \in UploadedNow
        /\ \A i \in DOMAIN calls : calls[i].op = "uploadFile" => calls[i].arg = ItemKey

\* A key already uploaded in this run is uploaded again under isForceManifest.
C2_Witness ==
    /\ PastUploadDecision
    /\ ItemKey \in UploadedBefore
    /\ cur.isForceManifest /\ ~cur.isForceMode
    /\ Succeeded("uploadFile")

\* --------------------------------------------------------------------- C3

\* C3: when a required font file is not found, the invocation makes no render, no
\* uploadFile and no generatePublicUrl call, and leaves item.ogImageUrl,
\* uploadedKeys and urlCache as they were, whatever the item's type and flags.
C3_MissingFontsSkipEverything ==
    (Active /\ FontsMissing) =>
        /\ ~Invoked("renderOgImage")
        /\ ~Invoked("uploadFile")
        /\ ~Invoked("generatePublicUrl")
        /\ Finished
        /\ outcome = "returned"
        /\ cur.ogImageUrl = pre.ogImageUrl
        /\ UploadedNow = UploadedBefore
        /\ UrlCacheNow = UrlCacheBefore

\* A forced item, the second photo processed, finds the fonts missing.
C3_Witness ==
    /\ Active /\ FontsMissing /\ Finished
    /\ cur.isForceMode
    /\ nCalls = 2

\* --------------------------------------------------------------------- C4

\* C4: within one run the outcome of the font lookup is cached, also when the
\* fonts are missing: the lookup is not repeated for the later items and the
\* 'fonts not found' warning is logged at most once.  (Each warning is logged by
\* a lookup of its own, so two warnings in a run are two lookups.)
C4_FontLookupOncePerRun ==
    \A r \in Runs : fontWarnings[r] <= 1

\* --------------------------------------------------------------------- C5

\* C5: item.ogImageUrl is either what it was before the invocation or the public
\* URL of the item's remote key, which urlCache then holds; it is what it was
\* whenever the render, the upload or the URL resolution failed.
C5_UrlUnchangedOrResolved ==
    /\ \/ cur.ogImageUrl = pre.ogImageUrl
       \/ /\ Active
          /\ cur.ogImageUrl \in PublicUrls(ItemKey)
          /\ ItemKey \in DOMAIN UrlCacheNow
          /\ cur.ogImageUrl = UrlCacheNow[ItemKey]
    /\ (Failed("renderOgImage") \/ Failed("uploadFile") \/ Failed("generatePublicUrl"))
          => cur.ogImageUrl = pre.ogImageUrl

\* A failed upload leaves the stale URL of the item in place.
C5_Witness ==
    /\ Active /\ Finished /\ Failed("uploadFile")
    /\ pre.ogImageUrl = StaleUrl
    /\ cur.ogImageUrl = StaleUrl

\* --------------------------------------------------------------------- C6

\* C6: afterPhotoProcess never throws because of a failed I/O step.
C6_NeverThrows == outcome # "threw"

\* --------------------------------------------------------------------- C7

\* The provider onInit resolves: the option's, else the builder's.
ResolvedProvider ==
    IF options.storageConfig # None THEN options.storageConfig[1].provider
    ELSE config.provider

DisabledByConfig ==
    resolved # None /\ (options.enable = "false" \/ ResolvedProvider = "eagle")

\* C7: with enable false or the eagle provider, onInit registers no exclude prefix
\* and creates no storage manager, and every later afterPhotoProcess returns at
\* once: no I/O call, no RunState, the item untouched.
C7_DisabledPluginDoesNothing ==
    DisabledByConfig =>
        /\ excludePrefixes = {}
        /\ ~externalStorageManager
        /\ \A r \in Runs : runShared[r] = None
        /\ pc = "idle"
        /\ calls = << >>
        /\ cur.ogImageUrl = pre.ogImageUrl
        /\ outcome \in {"none", "returned"}

C7_Witness ==
    /\ DisabledByConfig
    /\ ResolvedProvider = "eagle"
    /\ nCalls = 2
    /\ cur.item # None /\ cur.isForceMode

\* --------------------------------------------------------------------- C8

\* C8: the resolve-only path is taken exactly by skipped items with no force flag;
\* a skipped item with either flag is rendered and, once rendered, uploaded,
\* whether or not its key is in uploadedKeys.
C8_ShouldRender ==
    (Active /\ FontsAvailable /\ pc \notin {"siteMeta", "fonts"} /\ outcome # "threw") =>
        LET should == (cur.type # "skipped" \/ cur.isForceMode \/ cur.isForceManifest)
        IN  /\ should => pc # "resolveOnly"
            /\ ~should => pc \in {"resolveOnly", "idle"} /\ ~Invoked("renderOgImage")
            /\ (should /\ Finished) => Invoked("renderOgImage")
            /\ (should /\ Invoked("generatePublicUrl")) => Succeeded("renderOgImage")
            /\ (should /\ Forced /\ Succeeded("renderOgImage"))
                  => (pc = "upload" \/ Invoked("uploadFile"))

\* A skipped item whose key is already uploaded is rendered and uploaded again
\* under isForceManifest alone.
C8_Witness ==
    /\ Active /\ Finished
    /\ cur.type = "skipped" /\ cur.isForceManifest /\ ~cur.isForceMode
    /\ ItemKey \in UploadedBefore
    /\ Succeeded("renderOgImage") /\ Succeeded("uploadFile")

\* --------------------------------------------------------------------- C9

\* The invocation completed the URL step of lines 436-447.
PastUrlStep ==
    Active /\ Finished /\ Succeeded("renderOgImage") /\ ~Failed("uploadFile")

\* C9: on the render path generatePublicUrl is invoked exactly when urlCache held
\* no URL for the key; a cached URL is written to the item and the cache is left
\* alone; a freshly resolved URL is in urlCache and in the item.
C9_UrlCacheReused ==
    PastUrlStep =>
        /\ Invoked("generatePublicUrl") <=> (ItemKey \notin DOMAIN UrlCacheBefore)
        /\ ItemKey \in DOMAIN UrlCacheBefore =>
              /\ cur.ogImageUrl = UrlCacheBefore[ItemKey]
              /\ UrlCacheNow = UrlCacheBefore
        /\ Succeeded("generatePublicUrl") =>
              /\ ItemKey \in DOMAIN UrlCacheNow
              /\ cur.ogImageUrl = UrlCacheNow[ItemKey]
              /\ cur.ogImageUrl \in PublicUrls(ItemKey)

\* The cached URL replaces the stale one without a call to the storage port.
C9_Witness ==
    /\ PastUrlStep
    /\ ItemKey \in DOMAIN UrlCacheBefore
    /\ ~Invoked("generatePublicUrl")
    /\ pre.ogImageUrl = StaleUrl
    /\ cur.ogImageUrl = UrlCacheBefore[ItemKey]

\* --------------------------------------------------------------------- C10

\* C10: once urlCache holds a URL for a key, no later invocation of the run calls
\* generatePublicUrl for that key.
C10_CachedUrlNeverResolvedAgain ==
    (Active /\ Invoked("generatePublicUrl")) => ItemKey \notin DOMAIN UrlCacheBefore

\* ============================================================================
\* The OG template's layout (be/apps/core/src/modules/content/og/og.template.tsx)
\* ============================================================================

\* ------------------------------------------------------------------ bounds

\* Aspect ratios n/d are drawn with n up to MaxNum and d up to MaxDen; box sides
\* up to MaxBox besides the four boxes of determineLayout.
MaxNum == 48
MaxDen == 20
MaxBox == 4

\* ----------------------------------------------------------------- numbers

\* A JavaScript number: a finite rational n/d with d > 0, or NaN, Infinity,
\* -Infinity.  The arithmetic is exact; where the rounding of doubles changes a
\* result of the code, the definition that is affected says so.
Q(n, d) == [k |-> "fin", n |-> n, d |-> d]
NaN == [k |-> "nan", n |-> 0, d |-> 1]
Infinity == [k |-> "inf", n |-> 0, d |-> 1]
NegInfinity == [k |-> "-inf", n |-> 0, d |-> 1]

isFinite(x) == x.k = "fin"
RLess(x, y) == x.n * y.d < y.n * x.d
RLeq(x, y) == x.n * y.d <= y.n * x.d
REq(x, y) == x.n * y.d = y.n * x.d
RMul(x, y) == Q(x.n * y.n, x.d * y.d)
\* x / y for y > 0
RDiv(x, y) == Q(x.n * y.d, x.d * y.n)

CANVAS == [width |-> 1200, height |-> 628]

\* Line 92.
ogAspect == RDiv(Q(CANVAS.width, 1), Q(CANVAS.height, 1))

\* finalAspect / ogAspect <= 0.82 (line 149), as the doubles decide it.  The two
\* quotients are rounded, and the rounding matters for one ratio of integers,
\* the boundary itself: (246 / 157) / (1200 / 628) evaluates to
\* 0.8200000000000001, which is above the literal 0.82.  Every other ratio of
\* integer dimensions is further from the boundary than the rounding error, and
\* the comparisons with 0.9, 1.1 and 2.35 involve one rounding on each side and
\* are exact.
landscapeSplit(finalAspect) == RLess(RDiv(finalAspect, ogAspect), Q(82, 100))

\* determineLayout with the boundary 1.1 given to landscape.
determineLayoutOpenSquare(aspect) ==
    LET finalAspect == IF ~isFinite(aspect) \/ RLeq(aspect, Q(0, 1)) THEN Q(1, 1)
                       ELSE aspect
    IN  IF RLess(finalAspect, Q(9, 10))
        THEN [type |-> "portrait", arrangement |-> "split", padding |-> 60, gap |-> 44,
              photoBox |-> [maxWidth |-> (CANVAS.width * 44) \div 100,
                            maxHeight |-> CANVAS.height - 60 * 2],
              infoCompact |-> FALSE, photoFit |-> "cover"]
        ELSE IF RLess(finalAspect, Q(11, 10))
        THEN [type |-> "square", arrangement |-> "split", padding |-> 60, gap |-> 44,
              photoBox |-> [maxWidth |-> (CANVAS.width * 5) \div 10,
                            maxHeight |-> CANVAS.height - 60 * 2],
              infoCompact |-> FALSE, photoFit |-> "cover"]
        ELSE IF RLeq(Q(235, 100), finalAspect)
        THEN [type |-> "wide", arrangement |-> "wide", padding |-> 50, gap |-> 28,
              photoBox |-> [maxWidth |-> CANVAS.width - 50 * 2, maxHeight |-> 340],
              infoCompact |-> TRUE, photoFit |-> "contain"]
        ELSE [type |-> "landscape",
              arrangement |-> IF landscapeSplit(finalAspect) THEN "split" ELSE "stack",
              padding |-> 54, gap |-> 26,
              photoBox |-> [maxWidth |-> CANVAS.width - 54 * 2, maxHeight |-> 410],
              infoCompact |-> FALSE, photoFit |-> "cover"]

\* Lines 94-163.  CANVAS.width * 0.44 and CANVAS.width * 0.5 are the integers 528
\* and 600.
determineLayout(aspect) ==
    LET finalAspect == IF ~isFinite(aspect) \/ RLeq(aspect, Q(0, 1)) THEN Q(1, 1)
                       ELSE aspect
    IN  IF RLess(finalAspect, Q(9, 10))
        THEN [type |-> "portrait", arrangement |-> "split", padding |-> 60, gap |-> 44,
              photoBox |-> [maxWidth |-> (CANVAS.width * 44) \div 100,
                            maxHeight |-> CANVAS.height - 60 * 2],
              infoCompact |-> FALSE, photoFit |-> "cover"]
        ELSE IF RLeq(finalAspect, Q(11, 10))
        THEN [type |-> "square", arrangement |-> "split", padding |-> 60, gap |-> 44,
              photoBox |-> [maxWidth |-> (CANVAS.width * 5) \div 10,
                            maxHeight |-> CANVAS.height - 60 * 2],
              infoCompact |-> FALSE, photoFit |-> "cover"]
        ELSE IF RLeq(Q(235, 100), finalAspect)
        THEN [type |-> "wide", arrangement |-> "wide", padding |-> 50, gap |-> 28,
              photoBox |-> [maxWidth |-> CANVAS.width - 50 * 2, maxHeight |-> 340],
              infoCompact |-> TRUE, photoFit |-> "contain"]
        ELSE [type |-> "landscape",
              arrangement |-> IF landscapeSplit(finalAspect) THEN "split" ELSE "stack",
              padding |-> 54, gap |-> 26,
              photoBox |-> [maxWidth |-> CANVAS.width - 54 * 2, maxHeight |-> 410],
              infoCompact |-> FALSE, photoFit |-> "cover"]

\* The aspect ratios determineLayout is evaluated on: the ratios of the grid,
\* zero and negative ones included, the ratio on the split / stack boundary, and
\* the numbers that are not finite.
LandscapeBoundary == Q(246, 157)

Aspects ==
    { Q(n, d) : n \in (-1)..MaxNum, d \in 1..MaxDen }
        \cup { LandscapeBoundary, NaN, Infinity, NegInfinity }

InitLayout ==
    /\ options = DefaultOptions
    /\ config = S3Storage
    /\ Constructed
    /\ args \in { Some(a) : a \in Aspects }
    /\ result = None

\* const layout = determineLayout(photoAspect) (line 62)
DetermineLayoutStep ==
    /\ result = None
    /\ result' = Some(determineLayout(args[1]))
    /\ UNCHANGED << ogVars, args, options, config, resolved, externalStorageManager,
                    excludePrefixes, runShared, pc, cur, calls, pre, outcome,
                    fontLookups, fontWarnings, nCalls >>

NextLayout == DetermineLayoutStep

SpecLayout == InitLayout /\ [][NextLayout]_vars

\* --------------------------------------------------------------------- C11

\* The aspect ratio after the clamping of the values that are not finite or not
\* positive.
ClampedAspect == IF isFinite(args[1]) /\ args[1].n > 0 THEN args[1] ELSE Q(1, 1)

\* C11: for every aspect ratio a, clamped to 1 when it is not finite or not
\* positive, determineLayout returns one of the four categories: portrait iff
\* a < 0.9, square iff 0.9 <= a <= 1.1, wide iff a >= 2.35, landscape iff
\* 1.1 < a < 2.35.
C11_LayoutCategory ==
    result # None =>
        LET a == ClampedAspect
            type == result[1].type
        IN  /\ type \in {"portrait", "square", "landscape", "wide"}
            /\ type = "portrait" <=> 10 * a.n < 9 * a.d
            /\ type = "square" <=> (9 * a.d <= 10 * a.n /\ 10 * a.n <= 11 * a.d)
            /\ type = "wide" <=> 100 * a.n >= 235 * a.d
            /\ type = "landscape" <=> (11 * a.d < 10 * a.n /\ 100 * a.n < 235 * a.d)

\* The boundary 1.1 is square.
C11_Witness ==
    /\ result # None
    /\ isFinite(args[1])
    /\ 10 * args[1].n = 11 * args[1].d
    /\ result[1].type = "square"

\* --------------------------------------------------------------------- C12

\* C12: portrait is split with box 528 x 508, square is split with box 600 x 508,
\* wide has arrangement wide, maximal height 340, fit contain and compact info,
\* landscape has maximal height 410 and is split when a / (1200 / 628) <= 0.82 and
\* stack otherwise; infoCompact and fit contain are for wide only.
C12_ArrangementAndBox ==
    result # None =>
        LET a == ClampedAspect
            layout == result[1]
        IN  /\ layout.type = "portrait" =>
                 /\ layout.arrangement = "split"
                 /\ layout.photoBox = [maxWidth |-> 528, maxHeight |-> 508]
            /\ layout.type = "square" =>
                 /\ layout.arrangement = "split"
                 /\ layout.photoBox = [maxWidth |-> 600, maxHeight |-> 508]
            /\ layout.type = "wide" =>
                 /\ layout.arrangement = "wide"
                 /\ layout.photoBox.maxHeight = 340
            /\ layout.type = "landscape" =>
                 /\ layout.photoBox.maxHeight = 410
                 /\ layout.arrangement = "split" <=> a.n * 628 * 100 <= 82 * 1200 * a.d
                 /\ layout.arrangement = "stack" <=> a.n * 628 * 100 > 82 * 1200 * a.d
            /\ layout.infoCompact <=> layout.type = "wide"
            /\ layout.photoFit = "contain" <=> layout.type = "wide"

\* ----------------------------------------------------------- fitWithinBox

\* fitWithinBox without the check of the height (lines 168-171).
fitWithinBoxWidthOnly(aspect, photoBox) ==
    LET width == Q(photoBox.maxWidth, 1)
        height == RDiv(width, aspect)
    IN  [width |-> width, height |-> height]

\* fitWithinBox starting from half of the box's width.
fitWithinBoxHalfWidth(aspect, photoBox) ==
    LET width == Q(photoBox.maxWidth, 2)
        height == RDiv(width, aspect)
    IN  IF RLess(Q(photoBox.maxHeight, 1), height)
        THEN [width |-> RMul(Q(photoBox.maxHeight, 1), aspect),
              height |-> Q(photoBox.maxHeight, 1)]
        ELSE [width |-> width, height |-> height]

\* Lines 165-173.
fitWithinBox(aspect, photoBox) ==
    LET width == Q(photoBox.maxWidth, 1)
        height == RDiv(width, aspect)
    IN  IF RLess(Q(photoBox.maxHeight, 1), height)
        THEN [width |-> RMul(Q(photoBox.maxHeight, 1), aspect),
              height |-> Q(photoBox.maxHeight, 1)]
        ELSE [width |-> width, height |-> height]

\* The positive aspect ratios and the boxes fitWithinBox is evaluated on: the
\* small boxes of the grid and the four boxes determineLayout hands out.
PositiveAspects == { Q(n, d) : n \in 1..MaxNum, d \in 1..MaxDen }

LayoutBoxes ==
    { determineLayout(a).photoBox : a \in { Q(1, 2), Q(1, 1), Q(16, 9), Q(3, 1) } }

Boxes ==
    { [maxWidth |-> w, maxHeight |-> h] : w \in 1..MaxBox, h \in 1..MaxBox }
        \cup LayoutBoxes

InitFit ==
    /\ options = DefaultOptions
    /\ config = S3Storage
    /\ Constructed
    /\ args \in { Some([aspect |-> a, photoBox |-> b]) : a \in PositiveAspects, b \in Boxes }
    /\ result = None

\* const photoSize = fitWithinBox(photoAspect, layout.photoBox) (line 63)
FitWithinBoxStep ==
    /\ result = None
    /\ result' = Some(fitWithinBox(args[1].aspect, args[1].photoBox))
    /\ UNCHANGED << ogVars, args, options, config, resolved, externalStorageManager,
                    excludePrefixes, runShared, pc, cur, calls, pre, outcome,
                    fontLookups, fontWarnings, nCalls >>

NextFit == FitWithinBoxStep

SpecFit == InitFit /\ [][NextFit]_vars

\* --------------------------------------------------------------------- C13

\* C13: for every positive aspect a and every box with positive sides, the size
\* fitWithinBox returns has width <= maxWidth, height <= maxHeight and
\* width = a * height.
C13_FitsAndKeepsAspect ==
    result # None =>
        LET a == args[1].aspect
            box == args[1].photoBox
            size == result[1]
        IN  /\ size.width.n * 1 <= box.maxWidth * size.width.d
            /\ size.height.n * 1 <= box.maxHeight * size.height.d
            /\ size.width.n * (a.d * size.height.d) = (a.n * size.height.n) * size.width.d

\* A box that is too low for the full width: the size is bounded by the height.
C13_Witness ==
    /\ result # None
    /\ args[1].photoBox \in LayoutBoxes
    /\ result[1].height = Q(args[1].photoBox.maxHeight, 1)
    /\ result[1].width.n < args[1].photoBox.maxWidth * result[1].width.d

\* --------------------------------------------------------------------- C14

\* C14: the size fitWithinBox returns meets one bound of the box exactly:
\* width = maxWidth or height = maxHeight.
C14_MeetsOneBound ==
    result # None =>
        LET box == args[1].photoBox
            size == result[1]
        IN  \/ size.width.n = box.maxWidth * size.width.d
            \/ size.height.n = box.maxHeight * size.height.d

\* The full width is used and the height stays below the box's height.
C14_Witness ==
    /\ result # None
    /\ args[1].photoBox \in LayoutBoxes
    /\ result[1].width = Q(args[1].photoBox.maxWidth, 1)
    /\ result[1].height.n < args[1].photoBox.maxHeight * result[1].height.d

\* ============================================================================
\* The remote prefix and the remote key (index.ts 62-93, 303-345, 386)
\* ============================================================================

\* The directory option: unset or empty, blank, made of slashes, plain, nested,
\* written with backslashes, padded with blanks or slashes.
Directories ==
    { << >>, << " " >>, << "/" >>, << "/", "/" >>, << " ", "/", " " >>,
      << "og" >>, << "/", "og", "/" >>, << "og", "/", "img" >>,
      << "og", "\\", "img" >>, << "\\", "og", "\\" >>, << " ", "og", " " >>,
      << "/", " ", "/" >> }

\* The prefix of a storage configuration; << >> when it has none.
Prefixes ==
    { << >>, << "/" >>, << "\\" >>, << "p" >>, << "/", "p", "/" >>, << "p", "\\", "q" >> }

Providers == {"s3", "oss", "cos", "b2", "github", "local", "eagle"}

KeyStorageConfigs == [provider : Providers, prefix : Prefixes]

KeyOptionSets ==
    { [DefaultOptions EXCEPT !.directory = d, !.storageConfig = s] :
        d \in Directories, s \in {None, Some([provider |-> "oss", prefix |-> << "o", "/" >>])} }
        \cup { [DefaultOptions EXCEPT !.enable = "false"] }

\* The ids of manifest items: plain, empty, and with slashes or backslashes.
ItemIds ==
    { << "a" >>, << "b" >>, << >>, << "/", "a" >>, << "\\", "a" >>, << "a", "\\", "b" >>,
      << "a", "/" >> }

InitKey ==
    /\ options \in KeyOptionSets
    /\ config \in KeyStorageConfigs
    /\ Constructed
    /\ args \in { Some(id) : id \in ItemIds }
    /\ result = None

\* const remoteKey = joinSegments(resolved.remotePrefix, `${item.id}.png`)
\* (line 386), for an item of an enabled plugin.
RemoteKeyStep ==
    /\ ~pluginDisabled(resolved)
    /\ result = None
    /\ result' = Some(RemoteKey(resolved[1].remotePrefix, args[1]))
    /\ UNCHANGED << ogVars, args, options, config, resolved, externalStorageManager,
                    excludePrefixes, runShared, pc, cur, calls, pre, outcome,
                    fontLookups, fontWarnings, nCalls >>

NextKey ==
    \/ onInit
    \/ RemoteKeyStep

SpecKey == InitKey /\ [][NextKey]_vars

\* --------------------------------------------------------------------- C15

\* C15: the remote key of an item is '<remotePrefix>/<itemId>.png' for every item
\* id, whatever else the invocation carries.
C15_RemoteKeyFormat ==
    result # None =>
        result[1] = resolved[1].remotePrefix \o << "/" >> \o args[1] \o << ".png" >>

\* --------------------------------------------------------------------- C16

Backslashed(s) == [i \in 1..Len(s) |-> IF s[i] = "\\" THEN "/" ELSE s[i]]
Unslashed(s) == StripTrailingSlashes(StripLeadingSlashes(s))
MadeOf(s, c) == \A i \in 1..Len(s) : s[i] = c

\* The storage configuration in force: the option's, else the builder's.
StorageInForce == resolved[1].storageConfig[1]

NoSlashAtEnds(s) == s # << >> /\ Head(s) # "/" /\ s[Len(s)] # "/"

\* C16 as stated: for an enabled plugin remotePrefix is the storage prefix joined
\* by '/' with the directory for s3, oss and cos with a non-empty prefix and the
\* directory alone otherwise; the directory is the configured one with its
\* surrounding slashes removed, or '.afilmory/og-images' when it is unset, blank
\* or made only of slashes; remotePrefix is not empty and has no '/' at its ends.
C16_RemotePrefixAsStated ==
    ~pluginDisabled(resolved) =>
        LET directory == IF MadeOf(options.directory, " ") \/ MadeOf(options.directory, "/")
                         THEN DEFAULT_DIRECTORY
                         ELSE Unslashed(options.directory)
            prefix == StorageInForce.prefix
        IN  /\ resolved[1].remotePrefix =
                 IF StorageInForce.provider \in {"s3", "oss", "cos"} /\ prefix # << >>
                 THEN Unslashed(prefix) \o << "/" >> \o directory
                 ELSE directory
            /\ NoSlashAtEnds(resolved[1].remotePrefix)

\* C16, amended: prefix and directory are taken with backslashes turned into '/'
\* and surrounding slashes removed, the directory with its surrounding blanks
\* trimmed first; the prefix counts when something is left of it, and the
\* directory is '.afilmory/og-images' when nothing is left of it.  Then
\* remotePrefix is the prefix joined by '/' with the directory for s3, oss and
\* cos, the directory alone otherwise, is not empty and has no '/' at its ends.
C16_RemotePrefix ==
    ~pluginDisabled(resolved) =>
        LET configured == Unslashed(Backslashed(Trim(options.directory)))
            directory == IF configured = << >> THEN DEFAULT_DIRECTORY ELSE configured
            prefix == Unslashed(Backslashed(StorageInForce.prefix))
        IN  /\ resolved[1].remotePrefix =
                 IF StorageInForce.provider \in {"s3", "oss", "cos"} /\ prefix # << >>
                 THEN prefix \o << "/" >> \o directory
                 ELSE directory
            /\ resolved[1].directory = directory
            /\ NoSlashAtEnds(resolved[1].remotePrefix)

\* A directory written with a backslash under a prefix padded with slashes.
C16_Witness ==
    /\ ~pluginDisabled(resolved)
    /\ StorageInForce = [provider |-> "s3", prefix |-> << "/", "p", "/" >>]
    /\ options.directory = << "og", "\\", "img" >>
    /\ resolved[1].remotePrefix = << "p", "/", "og", "/", "img" >>

\* ============================================================================
\* resolveThumbnailDataUrl on every combination of its inputs (index.ts 196-233)
\* ============================================================================

JpegThumbnail == << "https://", "cdn", "/", "t", ".jpg" >>

\* pluginData?.localUrl and item.thumbnailUrl; << >> when absent.
ThumbnailUrls == { << >>, LocalThumbnail, RemoteThumbnail, JpegThumbnail }

\* pluginData?.buffer, the two URLs, and what the fetch and the local read would
\* yield if they were made.
AllThumbnailInputs ==
    [buffer : BOOLEAN, localUrl : ThumbnailUrls, itemUrl : ThumbnailUrls,
     fetched : {"ok", "notok", "throw"}, header : {<< >>, << "image/avif" >>},
     readOk : BOOLEAN]

InitThumbnail ==
    /\ options = DefaultOptions
    /\ config = S3Storage
    /\ Constructed
    /\ args \in { Some(in) : in \in AllThumbnailInputs }
    /\ result = None

\* const thumbnailSrc = await resolveThumbnailDataUrl(item, thumbnailData, logger)
\* (line 400)
ResolveThumbnailDataUrlStep ==
    /\ result = None
    /\ result' = Some(resolveThumbnailDataUrl(args[1].buffer, args[1].localUrl,
                                              args[1].itemUrl, args[1].fetched,
                                              args[1].header, args[1].readOk))
    /\ UNCHANGED << ogVars, args, options, config, resolved, externalStorageManager,
                    excludePrefixes, runShared, pc, cur, calls, pre, outcome,
                    fontLookups, fontWarnings, nCalls >>

NextThumbnail == ResolveThumbnailDataUrlStep

SpecThumbnail == InitThumbnail /\ [][NextThumbnail]_vars

\* --------------------------------------------------------------------- C17

\* C17: when the thumbnail data holds in-memory bytes, resolveThumbnailDataUrl
\* returns a data URL of type image/jpeg made of these bytes, without a fetch and
\* without a file read, whatever URLs the item and the plugin data carry.
C17_BufferPreferred ==
    (result # None /\ args[1].buffer) =>
        /\ result[1].src = << "image/jpeg", "buffer" >>
        /\ result[1].io = << >>

\* Bytes in memory next to a local URL and a remote URL that could be read.
C17_Witness ==
    /\ result # None
    /\ args[1].buffer
    /\ args[1].localUrl = LocalThumbnail
    /\ args[1].itemUrl = RemoteThumbnail
    /\ args[1].fetched = "ok"
    /\ args[1].readOk
    /\ result[1].src = << "image/jpeg", "buffer" >>

\* --------------------------------------------------------------------- C18

\* The invocation is on the render path and resolveThumbnailDataUrl has returned.
PastThumbnail == Active /\ (pc \in {"render", "upload", "url"} \/ Invoked("renderOgImage"))

\* The thumbnail source was not made of in-memory bytes.
NoThumbnailBytes == cur.thumbnailSrc = << >> \/ cur.thumbnailSrc[2] # "buffer"

\* C18: without in-memory bytes the sources are tried in order and the first
\* success is returned: the fetch of an http(s) URL comes first, a fetch that
\* throws or is answered with an error falls through to the local read, and a
\* read is made after a failed fetch or alone; when nothing succeeds or there is
\* no URL the thumbnail is absent, the invocation does not throw, and the item is
\* rendered, uploaded and given its URL when these steps succeed.
C18_ThumbnailFallback ==
    (PastThumbnail /\ NoThumbnailBytes) =>
        /\ Len(CallsOf("fetch")) <= 1
        /\ Len(CallsOf("readFile")) <= 1
        /\ \A i \in DOMAIN calls :
              calls[i].op = "fetch" =>
                 /\ IsHttpUrl(calls[i].arg)
                 /\ \A j \in 1..(i - 1) : calls[j].op # "readFile"
                 /\ ~calls[i].ok <=> (i < Len(calls) /\ calls[i + 1].op = "readFile")
                 /\ calls[i].ok => (~Invoked("readFile") /\ cur.thumbnailSrc # << >>
                                     /\ cur.thumbnailSrc[2] = "remote")
        /\ Succeeded("readFile") => (cur.thumbnailSrc # << >> /\ cur.thumbnailSrc[2] = "local")
        /\ cur.thumbnailSrc = << >> <=> (~Succeeded("fetch") /\ ~Succeeded("readFile"))
        /\ cur.thumbnailSrc = << >> =>
              /\ outcome # "threw"
              /\ pc = "render" \/ Invoked("renderOgImage")
              /\ Succeeded("renderOgImage") =>
                    (pc = "upload" \/ Invoked("uploadFile") \/ ItemKey \in UploadedBefore)
              /\ (Finished /\ Succeeded("renderOgImage") /\ ~Failed("uploadFile")
                    /\ ~Failed("generatePublicUrl")) =>
                    /\ cur.ogImageUrl # << >>
                    /\ cur.ogImageUrl \in PublicUrls(ItemKey)
                          \/ (ItemKey \in DOMAIN UrlCacheBefore
                                /\ cur.ogImageUrl = UrlCacheBefore[ItemKey])

\* The fetch throws, the local read fails, and the item is rendered without a
\* thumbnail, uploaded and given its URL.
C18_Witness ==
    /\ Active
    /\ Finished
    /\ cur.thumbnailSrc = << >>
    /\ Failed("fetch")
    /\ Failed("readFile")
    /\ Succeeded("renderOgImage")
    /\ Succeeded("uploadFile")
    /\ Succeeded("generatePublicUrl")
    /\ cur.ogImageUrl \in PublicUrls(ItemKey)

\* ============================================================================
\* buildExifInfo (index.ts 255-279; the same function is OgService.buildExifInfo)
\* ============================================================================

\* An EXIF field is None when the tag is missing, else Some(value); a string
\* value may be empty or blank and a number may be 0.
ExifStrings == { None, Some(<< >>), Some(<< "v" >>) }
ExifNumbers == { None, Some(0), Some(28) }
ExifNames == { None, Some(<< >>), Some(<< " " >>), Some(<< "Canon", " " >>) }

Exifs ==
    [FocalLengthIn35mmFormat : ExifStrings, FocalLength : ExifStrings,
     FNumber : ExifNumbers, ISO : ExifNumbers, ExposureTime : ExifStrings,
     Make : ExifNames, Model : ExifNames]

\* The photos buildExifInfo is evaluated on: without EXIF data, or with any
\* combination of the seven tags.
ExifPhotos == { [exif |-> None] } \cup { [exif |-> Some(e)] : e \in Exifs }

\* The truth value of a possibly missing string, and of a possibly missing number.
Truthy(field) == field # None /\ field[1] # << >>
TruthyNumber(field) == field # None /\ field[1] # 0

\* a || b and a ?? b
OrElse(a, b) == IF Truthy(a) THEN a ELSE b
Coalesce(a, b) == IF a # None THEN a ELSE b

buildExifInfo(photo) ==
    IF photo.exif = None THEN None
    ELSE LET exif == photo.exif[1]
             focalLength == OrElse(exif.FocalLengthIn35mmFormat, exif.FocalLength)
             aperture == IF TruthyNumber(exif.FNumber) THEN Some(<< "f/", exif.FNumber[1] >>)
                         ELSE None
             iso == Coalesce(exif.ISO, None)
             shutterSpeed == IF Truthy(exif.ExposureTime)
                             THEN Some(exif.ExposureTime[1] \o << "s" >>)
                             ELSE None
             camera == IF Truthy(exif.Make) /\ Truthy(exif.Model)
                       THEN Some(Trim(Trim(exif.Make[1]) \o << " " >> \o Trim(exif.Model[1])))
                       ELSE Coalesce(exif.Model, Coalesce(exif.Make, None))
         IN  IF ~Truthy(focalLength) /\ ~Truthy(aperture) /\ ~TruthyNumber(iso)
                  /\ ~Truthy(shutterSpeed) /\ ~Truthy(camera)
             THEN None
             ELSE Some([focalLength |-> Coalesce(focalLength, None), aperture |-> aperture,
                        iso |-> iso, shutterSpeed |-> shutterSpeed, camera |-> camera])

InitExif ==
    /\ options = DefaultOptions
    /\ config = S3Storage
    /\ Constructed
    /\ args \in { Some(photo) : photo \in ExifPhotos }
    /\ result = None

\* const exifInfo = buildExifInfo(item) (line 401)
BuildExifInfoStep ==
    /\ result = None
    /\ result' = Some(buildExifInfo(args[1]))
    /\ UNCHANGED << ogVars, args, options, config, resolved, externalStorageManager,
                    excludePrefixes, runShared, pc, cur, calls, pre, outcome,
                    fontLookups, fontWarnings, nCalls >>

NextExif == BuildExifInfoStep

SpecExif == InitExif /\ [][NextExif]_vars

\* --------------------------------------------------------------------- C19

\* The tag is there with a value: a non-empty string or a number other than 0.
TagPresent(tag) ==
    /\ args[1].exif # None
    /\ IF tag \in {"FNumber", "ISO"} THEN TruthyNumber(args[1].exif[1][tag])
       ELSE Truthy(args[1].exif[1][tag])

\* C19: the summary is absent exactly when the item has none of focal length
\* (35mm-equivalent or native), f-number, ISO, exposure time, make and model;
\* otherwise it is present and sets exactly the fields whose source is present,
\* the camera being the one of make and model that is present when only one is.
C19_ExifSummary ==
    result # None =>
        LET summary == result[1]
        IN  /\ summary = None <=>
                  \A tag \in {"FocalLengthIn35mmFormat", "FocalLength", "FNumber", "ISO",
                              "ExposureTime", "Make", "Model"} : ~TagPresent(tag)
            /\ summary # None =>
                  /\ Truthy(summary[1].focalLength) <=>
                        (TagPresent("FocalLengthIn35mmFormat") \/ TagPresent("FocalLength"))
                  /\ Truthy(summary[1].aperture) <=> TagPresent("FNumber")
                  /\ TruthyNumber(summary[1].iso) <=> TagPresent("ISO")
                  /\ Truthy(summary[1].shutterSpeed) <=> TagPresent("ExposureTime")
                  /\ Truthy(summary[1].camera) <=> (TagPresent("Make") \/ TagPresent("Model"))
                  /\ (TagPresent("Make") /\ ~TagPresent("Model")) =>
                        summary[1].camera = args[1].exif[1].Make
                  /\ (TagPresent("Model") /\ ~TagPresent("Make")) =>
                        summary[1].camera = args[1].exif[1].Model

\* --------------------------------------------------------------------- C20

\* The call at position i of the invocation's trace is a successful call of op.
OkAt(i, op) == calls[i].op = op /\ calls[i].ok

\* Each step is taken at most once, and a failed upload or URL resolution ends
\* the invocation.
NoRetry ==
    /\ \A op \in {"renderOgImage", "uploadFile", "generatePublicUrl"} : Len(CallsOf(op)) <= 1
    /\ \A i \in DOMAIN calls :
          (calls[i].op \in {"uploadFile", "generatePublicUrl"} /\ ~calls[i].ok) =>
             (i = Len(calls) /\ Finished)

\* uploadFile comes after a render that returned bytes.
UploadAfterRender ==
    \A j \in DOMAIN calls :
       calls[j].op = "uploadFile" => \E i \in 1..(j - 1) : OkAt(i, "renderOgImage")

\* generatePublicUrl comes after a successful upload, or after a render whose
\* upload the dedup set made unnecessary.
UrlAfterUpload ==
    \A k \in DOMAIN calls :
       calls[k].op = "generatePublicUrl" =>
          \/ \E j \in 1..(k - 1) : OkAt(j, "uploadFile")
          \/ /\ \E i \in 1..(k - 1) : OkAt(i, "renderOgImage")
             /\ ~Invoked("uploadFile")
             /\ ItemKey \in UploadedBefore
             /\ ~Forced

\* item.ogImageUrl is written with a URL that was resolved or cached.
UrlWrittenWhenObtained ==
    cur.ogImageUrl # pre.ogImageUrl =>
       /\ Finished
       /\ \/ Succeeded("generatePublicUrl") /\ cur.ogImageUrl \in PublicUrls(ItemKey)
          \/ /\ ~Invoked("generatePublicUrl")
             /\ ItemKey \in DOMAIN UrlCacheBefore
             /\ cur.ogImageUrl = UrlCacheBefore[ItemKey]

\* C20 as stated: within one invocation each step is taken at most once and not
\* retried, uploadFile only after the render returned bytes, generatePublicUrl
\* only after the upload succeeded or was skipped by the dedup set, and
\* item.ogImageUrl is written only after a URL was obtained.
C20_StepOrderAsStated ==
    Active => (NoRetry /\ UploadAfterRender /\ UrlAfterUpload /\ UrlWrittenWhenObtained)

\* C20, amended: the condition on generatePublicUrl is that of an invocation that
\* renders (shouldRender); the rest holds for every invocation.
C20_StepOrder ==
    Active =>
        /\ NoRetry
        /\ UploadAfterRender
        /\ shouldRender(cur.type, cur.isForceMode, cur.isForceManifest) => UrlAfterUpload
        /\ UrlWrittenWhenObtained

\* Render, upload and URL resolution in this order, and the URL written.
C20_Witness ==
    /\ Active
    /\ Finished
    /\ \E i, j, k \in DOMAIN calls :
          /\ i < j /\ j < k
          /\ OkAt(i, "renderOgImage")
          /\ OkAt(j, "uploadFile")
          /\ OkAt(k, "generatePublicUrl")
    /\ cur.ogImageUrl # pre.ogImageUrl

\* --------------------------------------------------------------------- C21

\* The run-scoped cache is as it was when the invocation began.
CacheUnchanged == UploadedNow = UploadedBefore /\ UrlCacheNow = UrlCacheBefore

\* What C21 says of the cache after a failed step.
FailedStepKeepsCache ==
    /\ (Failed("renderOgImage") \/ Failed("uploadFile")) =>
          (CacheUnchanged /\ ~Invoked("generatePublicUrl"))
    /\ (Succeeded("uploadFile") /\ Failed("generatePublicUrl")) =>
          /\ ItemKey \in UploadedNow
          /\ ItemKey \notin DOMAIN UrlCacheNow
    /\ (~shouldRender(cur.type, cur.isForceMode, cur.isForceManifest)
          /\ Failed("generatePublicUrl")) => UrlCacheNow = UrlCacheBefore

\* C21 as stated: a failed render or upload leaves uploadedKeys and urlCache as
\* they were and generatePublicUrl is not invoked; a resolution that fails after
\* a successful upload leaves the key in uploadedKeys, no entry for it in
\* urlCache and the item without a preview URL; a failed resolution on the skip
\* path leaves urlCache as it was.
C21_FailedStepFrameAsStated ==
    Active =>
        /\ FailedStepKeepsCache
        /\ (Succeeded("uploadFile") /\ Failed("generatePublicUrl")) =>
              cur.ogImageUrl = << >>

\* C21, amended: after the failed resolution item.ogImageUrl is what it was
\* before the invocation, which is no URL only for an item that carried none.
C21_FailedStepFrame ==
    Active =>
        /\ FailedStepKeepsCache
        /\ (Succeeded("uploadFile") /\ Failed("generatePublicUrl")) =>
              cur.ogImageUrl = pre.ogImageUrl

\* The upload of an item that carries a URL of an earlier build succeeds and the
\* resolution fails.
C21_Witness ==
    /\ Active
    /\ Finished
    /\ Succeeded("uploadFile")
    /\ Failed("generatePublicUrl")
    /\ ItemKey \in UploadedNow
    /\ ItemKey \notin UploadedBefore
    /\ pre.ogImageUrl = StaleUrl
    /\ cur.ogImageUrl = StaleUrl

\* --------------------------------------------------------------------- C22

\* The RunState of one container after a step: created empty, or the one that
\* was there with nothing taken out of it.
RunStateKept(r) ==
    IF runShared[r] = None
    THEN runShared'[r] \in {None, Some(EmptyRunState)}
    ELSE /\ runShared'[r] # None
         /\ State(r).uploaded \subseteq runShared'[r][1].uploaded
         /\ DOMAIN State(r).urlCache \subseteq DOMAIN runShared'[r][1].urlCache
         /\ State(r).siteMeta # None => runShared'[r][1].siteMeta = State(r).siteMeta
         /\ State(r).fonts # << >> => runShared'[r][1].fonts = State(r).fonts

\* The dedup decision and the URL lookup of the current item read only the cache
\* of the item's own container.
OwnCacheOnly ==
    PastUploadDecision =>
        /\ ItemKey \notin UploadedBefore => (pc = "upload" \/ Invoked("uploadFile"))
        /\ (ItemKey \notin DOMAIN UrlCacheBefore /\ PastUrlStep) =>
              Invoked("generatePublicUrl")

\* C22: the RunState of a runShared container is created empty by the first item
\* that reaches it, the same RunState serves every later item of that container
\* and is never replaced or reset, and a step for one container leaves every
\* other container alone, so that a key uploaded or a URL cached in one run
\* does not count as uploaded or cached in another.
C22_RunStatePerContainer ==
    /\ []OwnCacheOnly
    /\ [][\A r \in Runs :
            /\ RunStateKept(r)
            /\ r # cur'.run => runShared'[r] = runShared[r]]_vars

\* The second run uploads, and resolves the URL of, a key that the first run has
\* uploaded and cached.
C22_Witness ==
    /\ Active
    /\ Finished
    /\ cur.run = "run2"
    /\ runShared["run1"] # None
    /\ ItemKey \in State("run1").uploaded
    /\ ItemKey \in DOMAIN State("run1").urlCache
    /\ UploadedBefore = {}
    /\ ~Forced
    /\ Succeeded("uploadFile")
    /\ Succeeded("generatePublicUrl")

\* --------------------------------------------------------------------- C23

\* The RunState of a container, the empty one while none has been created.
RunStateOf(container) == IF container = None THEN EmptyRunState ELSE container[1]

\* The call that the step just taken has added to the trace, if any.
CallJustMade(op, key) ==
    /\ Len(calls') = Len(calls) + 1
    /\ calls'[Len(calls')] = Call(op, key, TRUE)

\* A step adds a key to uploadedKeys only with a successful uploadFile of that
\* key for an item of that run, writes a urlCache entry only with the URL that a
\* successful generatePublicUrl of that key returned, and removes nothing.
CacheProvenance(r) ==
    LET before == RunStateOf(runShared[r])
        after == RunStateOf(runShared'[r])
    IN  /\ before.uploaded \subseteq after.uploaded
        /\ \A k \in after.uploaded \ before.uploaded :
              cur'.run = r /\ CallJustMade("uploadFile", k)
        /\ DOMAIN before.urlCache \subseteq DOMAIN after.urlCache
        /\ \A k \in DOMAIN after.urlCache :
              (k \notin DOMAIN before.urlCache \/ after.urlCache[k] # before.urlCache[k])
                 => /\ cur'.run = r
                    /\ CallJustMade("generatePublicUrl", k)
                    /\ after.urlCache[k] = cur'.ogImageUrl
                    /\ after.urlCache[k] \in PublicUrls(k)

\* C23: uploadedKeys holds a key only if an uploadFile of that key succeeded
\* earlier in the same run, urlCache maps a key only to a URL that a successful
\* generatePublicUrl of that key returned earlier in the same run, and no entry
\* of either is ever removed.  Both collections are empty when the RunState is
\* created, so the property of the steps gives the property of every state.
C23_CacheProvenance ==
    /\ [](\A r \in StartedRuns : \A k \in DOMAIN State(r).urlCache :
             State(r).urlCache[k] \in PublicUrls(k))
    /\ [][\A r \in Runs : CacheProvenance(r)]_vars

\* One run holds two uploaded keys and the URL of each.
C23_Witness ==
    \E r \in StartedRuns :
       /\ Cardinality(State(r).uploaded) = 2
       /\ DOMAIN State(r).urlCache = State(r).uploaded

\* --------------------------------------------------------------- OgTemplate

MaxDim == 8

\* A dimension the manifest does not carry.
Undefined == [k |-> "undefined", n |-> 0, d |-> 1]

\* Number.MIN_VALUE, 5e-324: the smallest positive double.  It stands for the
\* finite positive heights so small that width / height exceeds the largest
\* double; it is used as a divisor only.
MIN_VALUE == [k |-> "min", n |-> 0, d |-> 1]

\* Number.isFinite(x) && x > 0
finitePositive(x) == (isFinite(x) /\ x.n > 0) \/ x = MIN_VALUE

\* Lines 281-286 of the plugin, lines 318-323 of OgService: x || 1, where
\* undefined, NaN and 0 are falsy.
getPhotoDimensions(photo) ==
    LET orOne(x) == IF x = Undefined \/ x = NaN \/ (isFinite(x) /\ x.n = 0) THEN Q(1, 1)
                    ELSE x
    IN  [width |-> orOne(photo.width), height |-> orOne(photo.height)]

\* width / height (line 60) for a finite positive width of ordinary size: the
\* quotient by MIN_VALUE overflows to Infinity.
Divide(width, height) == IF height = MIN_VALUE THEN Infinity ELSE RDiv(width, height)

\* Lines 95-98: the aspect ratio determineLayout classifies.
clampAspect(aspect) ==
    IF ~isFinite(aspect) \/ RLeq(aspect, Q(0, 1)) THEN Q(1, 1) ELSE aspect

\* fitWithinBox (lines 165-173) on the aspects line 60 can produce: with
\* aspect = Infinity the height maxWidth / Infinity is 0, which is not above
\* maxHeight, so the size is maxWidth x 0.
fitPhoto(aspect, photoBox) ==
    IF aspect = Infinity
    THEN [width |-> Q(photoBox.maxWidth, 1), height |-> Q(0, 1)]
    ELSE fitWithinBox(aspect, photoBox)

\* Lines 58-63.
OgTemplate(photoDimensions) ==
    LET width == IF finitePositive(photoDimensions.width) THEN photoDimensions.width
                 ELSE Q(1, 1)
        height == IF finitePositive(photoDimensions.height) THEN photoDimensions.height
                  ELSE Q(1, 1)
        photoAspect == Divide(width, height)
        layout == determineLayout(photoAspect)
        photoSize == fitPhoto(photoAspect, layout.photoBox)
    IN  [width |-> width, height |-> height, photoAspect |-> photoAspect,
         layout |-> layout, photoSize |-> photoSize]

\* The widths of manifest items: absent, not a number, infinite, zero,
\* negative and the pixel counts of the grid.  The heights are these and a
\* positive value too small to divide by.
ItemWidths ==
    { Undefined, NaN, Infinity, NegInfinity, Q(0, 1), Q(-3, 1) }
        \cup { Q(n, 1) : n \in 1..MaxDim }

InitTemplate ==
    /\ options = DefaultOptions
    /\ config = S3Storage
    /\ Constructed
    /\ args \in { Some([width |-> w, height |-> h]) : w \in ItemWidths,
                    h \in ItemWidths \cup { MIN_VALUE } }
    /\ result = None

\* photoDimensions: getPhotoDimensions(item) (line 414), then the template.
OgTemplateStep ==
    /\ result = None
    /\ result' = Some(OgTemplate(getPhotoDimensions(args[1])))
    /\ UNCHANGED << ogVars, args, options, config, resolved, externalStorageManager,
                    excludePrefixes, runShared, pc, cur, calls, pre, outcome,
                    fontLookups, fontWarnings, nCalls >>

SpecTemplate == InitTemplate /\ [][OgTemplateStep]_vars

\* --------------------------------------------------------------------- C24

\* C24: whatever the width and height of the item (zero, missing, negative, NaN
\* and infinite ones included), a dimension that is not a finite positive number
\* is replaced by 1 before layout, the aspect ratio determineLayout classifies
\* and the one fitWithinBox is given are the same finite positive number, and
\* the fitted width and height are finite and positive.
C24_DimensionsClamped ==
    result # None =>
        LET item == args[1]
            t == result[1]
        IN  /\ ~finitePositive(item.width) => t.width = Q(1, 1)
            /\ ~finitePositive(item.height) => t.height = Q(1, 1)
            /\ isFinite(t.photoAspect) /\ t.photoAspect.n > 0
            /\ clampAspect(t.photoAspect) = t.photoAspect
            /\ isFinite(t.photoSize.width) /\ t.photoSize.width.n > 0
            /\ isFinite(t.photoSize.height) /\ t.photoSize.height.n > 0

\* --------------------------------------------------------------------- C26

\* C26: under one remote prefix the items of distinct ids have distinct remote
\* keys, so that an item is neither taken as uploaded nor given a cached URL
\* because of the key of a different item.
C26_DistinctKeys ==
    result # None =>
        \A other \in ItemIds \ {args[1]} :
           LET otherKey == RemoteKey(resolved[1].remotePrefix, other)
           IN  /\ result[1] # otherKey
               /\ needsUpload({otherKey}, result[1], FALSE, FALSE)
               /\ \A url \in PublicUrls(otherKey) :
                     cachedUrl(MapSet(<< >>, otherKey, url), result[1]) = << >>

\* ------------------------------------------------------- OgService: fonts

MaxRequests == 3
MaxEvictions == 2

\* 10 * 60 * 1000 ms (line 257), in minutes.
FontCleanupMinutes == 10

\* What readFile resolves to for each font.
GeistBytes == Some("Geist-Medium.ttf")
HarmonyBytes == Some("HarmonyOS_Sans_SC_Medium.ttf")

\* The deployments: what stat finds at the candidate paths of Geist and of
\* HarmonyOS Sans SC (lines 24-27 and 38-41, two candidates each in a production
\* build): a file, a directory or nothing.
FileSystems ==
    { [geist |-> g, harmony |-> h] :
        g \in { << "file", "missing" >>, << "missing", "file" >>, << "dir", "file" >>,
                << "missing", "missing" >> },
        h \in { << "file", "missing" >>, << "missing", "missing" >> } }

\* The handle setTimeout returns: one that no armed timer has.
NewHandle(armed) ==
    CHOOSE i \in 1..(Cardinality(armed) + 1) : \A t \in armed : t.id # i

\* resetFontCleanupTimer that arms a timer without clearing the pending one.
resetFontCleanupTimerNoClear(timer, armed) ==
    LET handle == NewHandle(armed)
    IN  [fontCleanupTimer |-> Some(handle),
         timers |-> armed \cup { [id |-> handle, minutes |-> FontCleanupMinutes] }]

\* Lines 245-259: the handle held and the timers armed after the call.
resetFontCleanupTimer(timer, armed) ==
    LET cleared == IF timer # None THEN { t \in armed : t.id # timer[1] } ELSE armed
        handle == NewHandle(cleared)
    IN  [fontCleanupTimer |-> Some(handle),
         timers |-> cleared \cup { [id |-> handle, minutes |-> FontCleanupMinutes] }]

\* A continuation is queued as a microtask: no timer callback runs and no time
\* passes before it has run.
MicrotaskPending == \E r \in Requests : requests[r].pc = "loaded"

\* loadFonts (lines 198-224) running on, without suspending, from the check of
\* the given stage with the promises gp and hp and the read counts rd: it
\* suspends at the first stat of a font whose promise is null, or resets the
\* timer and completes.
RunLoadFonts(r, stage, gp, hp, rd) ==
    /\ geistFontPromise' = gp
    /\ harmonySansScMediumFontPromise' = hp
    /\ reads' = rd
    /\ IF stage = "geist" /\ gp = None
       THEN /\ requests' = [requests EXCEPT ![r].pc = "statGeist", ![r].candidate = 1]
            /\ UNCHANGED << fontCleanupTimer, timers, sinceActivity >>
       ELSE IF stage \in {"geist", "harmony"} /\ hp = None
       THEN /\ requests' = [requests EXCEPT ![r].pc = "statHarmony", ![r].candidate = 1]
            /\ UNCHANGED << fontCleanupTimer, timers, sinceActivity >>
       ELSE LET t == resetFontCleanupTimer(fontCleanupTimer, timers)
            IN  /\ requests' = [requests EXCEPT ![r].pc = "loaded"]
                /\ fontCleanupTimer' = t.fontCleanupTimer
                /\ timers' = t.timers
                /\ sinceActivity' = 0

\* Lines 226-227 and 199: a render request reaches getFontConfig, which calls
\* loadFonts.
GetFontConfig(r) ==
    /\ requests[r].pc \in {"idle", "returned"}
    /\ nRequests < MaxRequests
    /\ nRequests' = nRequests + 1
    /\ RunLoadFonts(r, "geist", geistFontPromise, harmonySansScMediumFontPromise, reads)
    /\ UNCHANGED << nEvictions, pluginVars, args, result >>

\* Lines 200-210: the stat of one Geist candidate has settled.
StatGeist(r) ==
    /\ requests[r].pc = "statGeist"
    /\ LET c == requests[r].candidate
       IN  IF args[1].geist[c] = "file"
           THEN RunLoadFonts(r, "harmony", GeistBytes, harmonySansScMediumFontPromise,
                             [reads EXCEPT !.geist = @ + 1])
           ELSE IF c < Len(args[1].geist)
           THEN /\ requests' = [requests EXCEPT ![r].candidate = c + 1]
                /\ UNCHANGED << geistFontPromise, harmonySansScMediumFontPromise, reads,
                                fontCleanupTimer, timers, sinceActivity >>
           ELSE RunLoadFonts(r, "harmony", geistFontPromise,
                             harmonySansScMediumFontPromise, reads)
    /\ UNCHANGED << nRequests, nEvictions, pluginVars, args, result >>

\* Lines 212-222: the stat of one HarmonyOS Sans SC candidate has settled.
StatHarmony(r) ==
    /\ requests[r].pc = "statHarmony"
    /\ LET c == requests[r].candidate
       IN  IF args[1].harmony[c] = "file"
           THEN RunLoadFonts(r, "done", geistFontPromise, HarmonyBytes,
                             [reads EXCEPT !.harmony = @ + 1])
           ELSE IF c < Len(args[1].harmony)
           THEN /\ requests' = [requests EXCEPT ![r].candidate = c + 1]
                /\ UNCHANGED << geistFontPromise, harmonySansScMediumFontPromise, reads,
                                fontCleanupTimer, timers, sinceActivity >>
           ELSE RunLoadFonts(r, "done", geistFontPromise,
                             harmonySansScMediumFontPromise, reads)
    /\ UNCHANGED << nRequests, nEvictions, pluginVars, args, result >>

\* Line 232: getFontConfig resumes after loadFonts and awaits geistFontPromise.
AwaitGeistFont(r) ==
    /\ requests[r].pc = "loaded"
    /\ requests' = [requests EXCEPT ![r].pc = "awaitGeist", ![r].geist = geistFontPromise]
    /\ UNCHANGED << geistFontPromise, harmonySansScMediumFontPromise, fontCleanupTimer,
                    timers, sinceActivity, nRequests, nEvictions, reads,
                    pluginVars, args, result >>

\* Lines 238 and 229-242: it resumes, awaits harmonySansScMediumFontPromise and
\* returns the two entries.
ReturnFontConfig(r) ==
    /\ requests[r].pc = "awaitGeist"
    /\ requests' = [requests EXCEPT ![r].pc = "returned",
                                    ![r].harmony = harmonySansScMediumFontPromise]
    /\ UNCHANGED << geistFontPromise, harmonySansScMediumFontPromise, fontCleanupTimer,
                    timers, sinceActivity, nRequests, nEvictions, reads,
                    pluginVars, args, result >>

\* Lines 251-256: the callback of a timer that has run out.
FontCleanup ==
    /\ ~MicrotaskPending
    /\ nEvictions < MaxEvictions
    /\ \E t \in timers :
         /\ t.minutes = 0
         /\ timers' = timers \ {t}
    /\ geistFontPromise' = None
    /\ harmonySansScMediumFontPromise' = None
    /\ fontCleanupTimer' = None
    /\ reads' = [geist |-> 0, harmony |-> 0]
    /\ nEvictions' = nEvictions + 1
    /\ UNCHANGED << sinceActivity, requests, nRequests, pluginVars, args, result >>

\* A minute passes while a timer is armed.
Tick ==
    /\ ~MicrotaskPending
    /\ timers # {}
    /\ sinceActivity < FontCleanupMinutes \/ \E t \in timers : t.minutes > 0
    /\ timers' = { [t EXCEPT !.minutes = IF @ > 0 THEN @ - 1 ELSE 0] : t \in timers }
    /\ sinceActivity' = IF sinceActivity < FontCleanupMinutes THEN sinceActivity + 1
                        ELSE sinceActivity
    /\ UNCHANGED << geistFontPromise, harmonySansScMediumFontPromise, fontCleanupTimer,
                    requests, nRequests, nEvictions, reads, pluginVars, args, result >>

\* Lines 60-65.
onModuleDestroy ==
    /\ ~MicrotaskPending
    /\ fontCleanupTimer # None
    /\ timers' = { t \in timers : t.id # fontCleanupTimer[1] }
    /\ fontCleanupTimer' = None
    /\ UNCHANGED << geistFontPromise, harmonySansScMediumFontPromise, sinceActivity,
                    requests, nRequests, nEvictions, reads, pluginVars, args, result >>

InitFonts ==
    /\ options = DefaultOptions
    /\ config = S3Storage
    /\ Constructed
    /\ args \in { Some(fs) : fs \in FileSystems }
    /\ result = None

NextFonts ==
    \/ \E r \in Requests : GetFontConfig(r)
    \/ \E r \in Requests : StatGeist(r)
    \/ \E r \in Requests : StatHarmony(r)
    \/ \E r \in Requests : AwaitGeistFont(r)
    \/ \E r \in Requests : ReturnFontConfig(r)
    \/ FontCleanup
    \/ Tick
    \/ onModuleDestroy

SpecFonts == InitFonts /\ [][NextFonts]_vars

\* --------------------------------------------------------------------- C25

\* A loadFonts call completes in this step.
LoadFontsCompletes ==
    \E r \in Requests : requests[r].pc # "loaded" /\ requests'[r].pc = "loaded"

\* C25: the cached fonts are cleaned only 10 minutes after the last activity:
\* every loadFonts call cancels the pending cleanup timer and arms a new one of
\* 10 minutes, at most one cleanup timer is pending at any time, and the fonts
\* are not evicted within 10 minutes of the latest completed loadFonts call.
C25_CleanupAfterLastActivity ==
    /\ [](/\ Cardinality(timers) <= 1
          /\ \A t \in timers : fontCleanupTimer = Some(t.id)
          /\ \A t \in timers : t.minutes + sinceActivity >= FontCleanupMinutes)
    /\ [][/\ LoadFontsCompletes =>
                timers' = { [id |-> fontCleanupTimer'[1], minutes |-> FontCleanupMinutes] }
          /\ nEvictions' # nEvictions => sinceActivity >= FontCleanupMinutes]_vars

\* The fonts have been evicted after a second loadFonts call had replaced the
\* timer of the first.
C25_Witness ==
    /\ nEvictions = 1
    /\ nRequests >= 2
    /\ sinceActivity = FontCleanupMinutes
    /\ geistFontPromise = None
    /\ \E r \in Requests : requests[r].pc = "returned" /\ requests[r].geist = GeistBytes


\* --------------------------------------------------------------------- C27

\* C27: between two evictions each font file is read from disk at most once,
\* also when several render requests call loadFonts while no font promise is
\* cached yet.
C27_OneReadPerFont == reads.geist <= 1 /\ reads.harmony <= 1

\* --------------------------------------------------------------------- C28

\* C28: whenever getFontConfig returns, the Geist entry and the HarmonyOS Sans
\* SC entry both carry the bytes of a font file that was found and read.
C28_FontDataPresent ==
    \A r \in Requests :
       requests[r].pc = "returned" =>
          requests[r].geist = GeistBytes /\ requests[r].harmony = HarmonyBytes


\* ------------------------------------------------- OAuth callback gateway

MaxSlugLen == 3

\* toLowerCase on the letters of the slug alphabet.
toLowerCase(s) == [i \in 1..Len(s) |-> IF s[i] = "A" THEN "a" ELSE s[i]]

\* [a-z0-9] with the flag i, on the characters of the alphabet.
IsAlnum(c) == c \in {"a", "A", "7", "r", "o", "t"}

\* SLUG_PATTERN (line 97): /^[a-z0-9](?:[a-z0-9-]{0,61}[a-z0-9])?$/i
SLUG_PATTERN(s) ==
    /\ Len(s) \in 1..63
    /\ IsAlnum(s[1])
    /\ IsAlnum(s[Len(s)])
    /\ \A i \in 1..Len(s) : IsAlnum(s[i]) \/ s[i] = "-"

\* Lines 100-109; null and the empty string are both << >>.
sanitizeTenantSlug(slug) ==
    IF slug = << >> THEN << >>
    ELSE LET trimmed == toLowerCase(Trim(slug))
         IN  IF ~SLUG_PATTERN(trimmed) THEN << >> ELSE trimmed

\* Lines 130-137.
resolveTargetHost(gateway, tenantSlug) ==
    IF tenantSlug # << >> /\ tenantSlug # gateway.rootSlug
    THEN tenantSlug \o << "." >> \o gateway.baseDomain
    ELSE gateway.baseDomain

\* Lines 139-149: both branches give http for a local host and https otherwise.
resolveProtocol(gateway, host) ==
    IF \/ \E i \in 1..Len(host) : host[i] = "localhost"
       \/ (host # << >> /\ host[1] = "127.")
       \/ (host # << >> /\ host[Len(host)] = ".local")
    THEN "http" ELSE "https"

\* Lines 151-162, the location kept in its parts.
buildForwardLocation(gateway, provider, host, state) ==
    [protocol |-> resolveProtocol(gateway, host), host |-> host,
     path |-> gateway.callbackBasePath \o << "/" >> \o provider, state |-> state]

\* Lines 20-59: the response to a callback request.  decoded is what
\* decodeGatewayState returns for the state parameter when it is called;
\* tenantSlug is line 44, sanitizeTenantSlug(slug) ?? slug ?? null.
callback(gateway, provider, stateParam, decoded) ==
    LET decodedState == IF gateway.stateSecret # None /\ stateParam # << >>
                        THEN decoded ELSE None
        state == IF decodedState # None /\ decodedState[1].innerState # << >>
                 THEN decodedState[1].innerState ELSE stateParam
        raw == IF decodedState = None THEN << >> ELSE decodedState[1].tenantSlug
        sanitized == sanitizeTenantSlug(raw)
        tenantSlug == IF sanitized # << >> THEN sanitized ELSE raw
        targetHost == resolveTargetHost(gateway, tenantSlug)
        none == [protocol |-> "", host |-> << >>, path |-> << >>, state |-> << >>]
    IN  IF provider = << >>
        THEN [status |-> 400, error |-> "missing_provider", location |-> none]
        ELSE IF stateParam # << >> /\ gateway.stateSecret # None /\ decodedState = None
        THEN [status |-> 400, error |-> "invalid_state", location |-> none]
        ELSE IF targetHost = << >>
        THEN [status |-> 400, error |-> "unresolvable_host", location |-> none]
        ELSE [status |-> 302, error |-> "",
              location |-> buildForwardLocation(gateway, provider, targetHost, state)]

\* The gateway configurations: with and without a state secret.
GatewayConfigs ==
    { [stateSecret |-> s, rootSlug |-> << "r", "o", "o", "t" >>,
       baseDomain |-> d, callbackBasePath |-> << "/", "cb" >>] :
        s \in {None, Some("secret")}, d \in { << "example.com" >>, << "localhost" >> } }

RECURSIVE StringsUpTo(_, _)
StringsUpTo(alphabet, n) ==
    IF n = 0 THEN { << >> }
    ELSE LET shorter == StringsUpTo(alphabet, n - 1)
         IN  shorter \cup { << c >> \o s : c \in alphabet,
                                            s \in { t \in shorter : Len(t) = n - 1 } }

\* The tenant slugs a decoded state can carry: the strings over a small
\* alphabet, the root slug, slugs of 63 and of 64 characters, and a host name
\* with a path.
TenantSlugs ==
    StringsUpTo({"a", "A", "-", "_", " "}, MaxSlugLen)
        \cup { << "r", "o", "o", "t" >>, [i \in 1..63 |-> "a"], [i \in 1..64 |-> "a"],
               << "a", ".", "a", "/" >> }

\* What decodeGatewayState can return: null, or the payload of a state.
DecodedStates ==
    {None} \cup { Some([tenantSlug |-> t, innerState |-> i]) :
                    t \in TenantSlugs, i \in { << >>, << "inner" >> } }

GatewayRequests ==
    { [provider |-> p, stateParam |-> s, decoded |-> d] :
        p \in { << "github" >> }, s \in { << >>, << "outer" >> }, d \in DecodedStates }
        \cup { [provider |-> << >>, stateParam |-> << >>, decoded |-> None] }

InitGateway ==
    /\ options = DefaultOptions
    /\ config = S3Storage
    /\ Constructed
    /\ args \in { Some([gateway |-> g, request |-> q]) :
                    g \in GatewayConfigs, q \in GatewayRequests }
    /\ result = None

CallbackStep ==
    /\ result = None
    /\ result' = Some(callback(args[1].gateway, args[1].request.provider,
                               args[1].request.stateParam, args[1].request.decoded))
    /\ UNCHANGED << ogVars, args, pluginVars >>

SpecGateway == InitGateway /\ [][CallbackStep]_vars

\* --------------------------------------------------------------------- C29

\* The tenant-slug pattern as the claim words it: 1 to 63 characters, letters,
\* digits and hyphens, not starting or ending with a hyphen.
TenantSlugPattern(s) ==
    /\ Len(s) >= 1
    /\ Len(s) <= 63
    /\ \A i \in 1..Len(s) : s[i] \in {"a", "A", "7", "r", "o", "t", "-"}
    /\ s[1] # "-"
    /\ s[Len(s)] # "-"

\* The decoded state the handler worked with, None when none was decoded.
DecodedInUse ==
    IF args[1].gateway.stateSecret # None /\ args[1].request.stateParam # << >>
    THEN args[1].request.decoded ELSE None

\* C29: every redirect of the callback gateway targets the base domain or
\* '<slug>.<baseDomain>' with a slug that satisfies the tenant-slug pattern; a
\* slug of the decoded state that sanitizeTenantSlug rejects is not used to
\* build the target host.
C29_RedirectTarget ==
    (result # None /\ result[1].status = 302) =>
        LET host == result[1].location.host
            baseDomain == args[1].gateway.baseDomain
        IN  /\ \/ host = baseDomain
               \/ \E slug \in TenantSlugs :
                     /\ TenantSlugPattern(slug)
                     /\ host = slug \o << "." >> \o baseDomain
            /\ \A d \in {DecodedInUse} \ {None} :
                  sanitizeTenantSlug(d[1].tenantSlug) = << >> =>
                      host = baseDomain


\* ----------------------------------------------------------- upload limits

MaxPlanLimit == 40

ABSOLUTE_MAX_FILE_SIZE_BYTES == 50 * 1024 * 1024
ABSOLUTE_MAX_REQUEST_SIZE_BYTES == 500 * 1024 * 1024
MAX_UPLOAD_FILES_PER_BATCH == 32

Min(a, b) == IF a < b THEN a ELSE b
Max(a, b) == IF a > b THEN a ELSE b

\* resolveFileSizeLimitBytes without the lower clamp.
resolveFileSizeLimitBytesNoFloor(limitFromPlan) ==
    LET resolvedLimit == IF limitFromPlan.null THEN ABSOLUTE_MAX_FILE_SIZE_BYTES
                         ELSE limitFromPlan.bytes
    IN  Min(resolvedLimit, ABSOLUTE_MAX_FILE_SIZE_BYTES)

\* Lines 19-22.
resolveFileSizeLimitBytes(limitFromPlan) ==
    LET resolvedLimit == IF limitFromPlan.null THEN ABSOLUTE_MAX_FILE_SIZE_BYTES
                         ELSE limitFromPlan.bytes
    IN  Min(Max(resolvedLimit, 1), ABSOLUTE_MAX_FILE_SIZE_BYTES)

\* Lines 24-28.
resolveBatchSizeLimitBytes(fileSizeLimitBytes) ==
    LET normalizedFileLimit == Max(fileSizeLimitBytes, 1)
        theoreticalBatchLimit == normalizedFileLimit * MAX_UPLOAD_FILES_PER_BATCH
    IN  Min(theoreticalBatchLimit, ABSOLUTE_MAX_REQUEST_SIZE_BYTES)

\* The plan limits getUploadSizeLimitBytes can give, null or a number of bytes:
\* null, the small integers around zero, and the integers around the file limit
\* and around the file size from which 32 files exceed the request limit.
PlanLimits ==
    { [null |-> TRUE, bytes |-> 0] }
        \cup { [null |-> FALSE, bytes |-> base + n] :
                 base \in { 0, ABSOLUTE_MAX_FILE_SIZE_BYTES,
                            ABSOLUTE_MAX_REQUEST_SIZE_BYTES \div MAX_UPLOAD_FILES_PER_BATCH },
                 n \in (0 - MaxPlanLimit)..MaxPlanLimit }

InitLimits ==
    /\ options = DefaultOptions
    /\ config = S3Storage
    /\ Constructed
    /\ args \in { Some(l) : l \in PlanLimits }
    /\ result = None

\* PhotoUploadLimitInterceptor.intercept: the two limits handed to the parser.
InterceptStep ==
    /\ result = None
    /\ LET fileSizeLimitBytes == resolveFileSizeLimitBytes(args[1])
           totalSizeLimitBytes == resolveBatchSizeLimitBytes(fileSizeLimitBytes)
       IN  result' = Some([fileSizeLimitBytes |-> fileSizeLimitBytes,
                           totalSizeLimitBytes |-> totalSizeLimitBytes])
    /\ UNCHANGED << ogVars, args, pluginVars >>

SpecLimits == InitLimits /\ [][InterceptStep]_vars

\* --------------------------------------------------------------------- C30

\* C30: for every plan limit (null, zero, negative or positive) the file size
\* limit f satisfies 1 <= f <= 50 MiB, and the batch limit is
\* min(32 * f, 500 MiB), which lies between f and 500 MiB.
C30_UploadLimits ==
    result # None =>
        LET f == result[1].fileSizeLimitBytes
            batch == result[1].totalSizeLimitBytes
        IN  /\ 1 <= f
            /\ f <= 50 * 1024 * 1024
            /\ batch = Min(32 * f, 500 * 1024 * 1024)
            /\ f <= batch
            /\ batch <= 500 * 1024 * 1024

\* A plan limit from which 32 files exceed the request limit: the file limit is
\* the plan's and the batch limit is capped.
C30_Witness ==
    /\ result # None
    /\ ~args[1].null
    /\ args[1].bytes * 32 > 500 * 1024 * 1024
    /\ args[1].bytes < 50 * 1024 * 1024
    /\ result[1].fileSizeLimitBytes = args[1].bytes
    /\ result[1].totalSizeLimitBytes = 500 * 1024 * 1024

====
